---- MODULE Spec2Model ----
(***************************************************************************)
(* A model of forscore-cli: the key codec (models/key.rs), the identifier  *)
(* resolvers (models/score.rs, models/setlist.rs, models/library.rs), the  *)
(* relational store as the commands write it (commands/*.rs, models/*.rs)  *)
(* and the sidecar mirror files (itm.rs, setlist_sync.rs).                 *)
(*                                                                         *)
(* Text is a sequence of Unicode code points, so that trimming, splitting, *)
(* case mapping, parsing, SQL LIKE and ORDER BY are computed, not assumed. *)
(* An Option<T> is a sequence of length at most one: None is <<>>, and     *)
(* Some(x) is <<x>>; SQL NULL is None.                                     *)
(***************************************************************************)
EXTENDS Integers, Sequences, FiniteSets, TLC

VARIABLES
    keyText,    \* the text handed to MusicalKey::from_string, or the code as text
    keyResult,  \* what the codec returned for it
    db,         \* the relational store: its tables
    fs,         \* the sync folder: the .itm and .set mirror files
    last,       \* the last command: its arguments, its outcome, the state before it
    minted,     \* identity tokens minted so far (uuid::Uuid::new_v4)
    env,        \* the faults the environment will raise: a failing statement, a failing file write
    steps       \* commands run so far

vars == <<keyText, keyResult, db, fs, last, minted, env, steps>>

None == <<>>
Some(x) == <<x>>
IsSome(o) == Len(o) = 1
Get(o) == o[1]

(***************************************************************************)
(* Characters.  A character is its Unicode code point, and a text is the   *)
(* sequence of its characters; the order of code points is the order of    *)
(* the UTF-8 bytes.  Ch and Txt give the code points of the ASCII          *)
(* characters written as one-character strings, Hex the code point of any  *)
(* character from its hexadecimal digits.                                  *)
(***************************************************************************)
\* The printable ASCII characters from the space (32) to the tilde (126); the
\* grave accent (96) cannot be written in a string and stands as "U+0060".
Printable ==
    <<" ", "!", "\"", "#", "$", "%", "&", "'", "(", ")", "*", "+", ",", "-", ".", "/", "0", "1",
      "2", "3", "4", "5", "6", "7", "8", "9", ":", ";", "<", "=", ">", "?", "@", "A", "B", "C",
      "D", "E", "F", "G", "H", "I", "J", "K", "L", "M", "N", "O", "P", "Q", "R", "S", "T", "U",
      "V", "W", "X", "Y", "Z", "[", "\\", "]", "^", "_", "U+0060", "a", "b", "c", "d", "e", "f",
      "g", "h", "i", "j", "k", "l", "m", "n", "o", "p", "q", "r", "s", "t", "u", "v", "w", "x",
      "y", "z", "{", "|", "}", "~">>

CharCode ==
    [c \in {Printable[i] : i \in 1..Len(Printable)} \cup {"\t", "\n", "\f", "\r"} |->
        CASE c = "\t" -> 9 [] c = "\n" -> 10 [] c = "\f" -> 12 [] c = "\r" -> 13
          [] OTHER -> 31 + CHOOSE i \in 1..Len(Printable) : Printable[i] = c]

Ch(c) == CharCode[c]
Txt(s) == [i \in 1..Len(s) |-> Ch(s[i])]
Chars(S) == {Ch(c) : c \in S}

RECURSIVE HexFrom(_, _)
HexFrom(s, acc) ==
    IF s = <<>> THEN acc
    ELSE HexFrom(Tail(s), acc * 16 + (IF Head(s) \in 48..57 THEN Head(s) - 48 ELSE Head(s) - 55))

\* The code point U+hhhh from its digits, Hex(<<"2","6","6","F">>) = U+266F.
Hex(digits) == HexFrom(Txt(digits), 0)

\* The ASCII letters change case and nothing else does: what SQLite's LOWER
\* and LIKE fold.
AsciiUpperChar(c) == IF c \in 97..122 THEN c - 32 ELSE c
AsciiLowerChar(c) == IF c \in 65..90 THEN c + 32 ELSE c

\* The Unicode case mappings (UnicodeData and the unconditional mappings of
\* SpecialCasing, Unicode 17.0.0).  A range <<first, last, step, delta>> maps
\* every step-th code point c from first to last to c + delta; a table maps a
\* code point to a text of several characters.
UpperRanges ==
    <<<<97, 122, 1, -32>>, <<181, 181, 1, 743>>, <<224, 246, 1, -32>>, <<248, 254, 1, -32>>,
      <<255, 255, 1, 121>>, <<257, 303, 2, -1>>, <<305, 305, 1, -232>>, <<307, 311, 2, -1>>,
      <<314, 328, 2, -1>>, <<331, 375, 2, -1>>, <<378, 382, 2, -1>>, <<383, 383, 1, -300>>,
      <<384, 384, 1, 195>>, <<387, 389, 2, -1>>, <<392, 392, 1, -1>>, <<396, 396, 1, -1>>,
      <<402, 402, 1, -1>>, <<405, 405, 1, 97>>, <<409, 409, 1, -1>>, <<410, 410, 1, 163>>,
      <<411, 411, 1, 42561>>, <<414, 414, 1, 130>>, <<417, 421, 2, -1>>, <<424, 424, 1, -1>>,
      <<429, 429, 1, -1>>, <<432, 432, 1, -1>>, <<436, 438, 2, -1>>, <<441, 441, 1, -1>>,
      <<445, 445, 1, -1>>, <<447, 447, 1, 56>>, <<453, 453, 1, -1>>, <<454, 454, 1, -2>>,
      <<456, 456, 1, -1>>, <<457, 457, 1, -2>>, <<459, 459, 1, -1>>, <<460, 460, 1, -2>>,
      <<462, 476, 2, -1>>, <<477, 477, 1, -79>>, <<479, 495, 2, -1>>, <<498, 498, 1, -1>>,
      <<499, 499, 1, -2>>, <<501, 501, 1, -1>>, <<505, 543, 2, -1>>, <<547, 563, 2, -1>>,
      <<572, 572, 1, -1>>, <<575, 576, 1, 10815>>, <<578, 578, 1, -1>>, <<583, 591, 2, -1>>,
      <<592, 592, 1, 10783>>, <<593, 593, 1, 10780>>, <<594, 594, 1, 10782>>,
      <<595, 595, 1, -210>>, <<596, 596, 1, -206>>, <<598, 599, 1, -205>>, <<601, 601, 1, -202>>,
      <<603, 603, 1, -203>>, <<604, 604, 1, 42319>>, <<608, 608, 1, -205>>, <<609, 609, 1, 42315>>,
      <<611, 611, 1, -207>>, <<612, 612, 1, 42343>>, <<613, 613, 1, 42280>>,
      <<614, 614, 1, 42308>>, <<616, 616, 1, -209>>, <<617, 617, 1, -211>>, <<618, 618, 1, 42308>>,
      <<619, 619, 1, 10743>>, <<620, 620, 1, 42305>>, <<623, 623, 1, -211>>,
      <<625, 625, 1, 10749>>, <<626, 626, 1, -213>>, <<629, 629, 1, -214>>, <<637, 637, 1, 10727>>,
      <<640, 640, 1, -218>>, <<642, 642, 1, 42307>>, <<643, 643, 1, -218>>, <<647, 647, 1, 42282>>,
      <<648, 648, 1, -218>>, <<649, 649, 1, -69>>, <<650, 651, 1, -217>>, <<652, 652, 1, -71>>,
      <<658, 658, 1, -219>>, <<669, 669, 1, 42261>>, <<670, 670, 1, 42258>>, <<837, 837, 1, 84>>,
      <<881, 883, 2, -1>>, <<887, 887, 1, -1>>, <<891, 893, 1, 130>>, <<940, 940, 1, -38>>,
      <<941, 943, 1, -37>>, <<945, 961, 1, -32>>, <<962, 962, 1, -31>>, <<963, 971, 1, -32>>,
      <<972, 972, 1, -64>>, <<973, 974, 1, -63>>, <<976, 976, 1, -62>>, <<977, 977, 1, -57>>,
      <<981, 981, 1, -47>>, <<982, 982, 1, -54>>, <<983, 983, 1, -8>>, <<985, 1007, 2, -1>>,
      <<1008, 1008, 1, -86>>, <<1009, 1009, 1, -80>>, <<1010, 1010, 1, 7>>,
      <<1011, 1011, 1, -116>>, <<1013, 1013, 1, -96>>, <<1016, 1016, 1, -1>>,
      <<1019, 1019, 1, -1>>, <<1072, 1103, 1, -32>>, <<1104, 1119, 1, -80>>, <<1121, 1153, 2, -1>>,
      <<1163, 1215, 2, -1>>, <<1218, 1230, 2, -1>>, <<1231, 1231, 1, -15>>, <<1233, 1327, 2, -1>>,
      <<1377, 1414, 1, -48>>, <<4304, 4346, 1, 3008>>, <<4349, 4351, 1, 3008>>,
      <<5112, 5117, 1, -8>>, <<7296, 7296, 1, -6254>>, <<7297, 7297, 1, -6253>>,
      <<7298, 7298, 1, -6244>>, <<7299, 7300, 1, -6242>>, <<7301, 7301, 1, -6243>>,
      <<7302, 7302, 1, -6236>>, <<7303, 7303, 1, -6181>>, <<7304, 7304, 1, 35266>>,
      <<7306, 7306, 1, -1>>, <<7545, 7545, 1, 35332>>, <<7549, 7549, 1, 3814>>,
      <<7566, 7566, 1, 35384>>, <<7681, 7829, 2, -1>>, <<7835, 7835, 1, -59>>,
      <<7841, 7935, 2, -1>>, <<7936, 7943, 1, 8>>, <<7952, 7957, 1, 8>>, <<7968, 7975, 1, 8>>,
      <<7984, 7991, 1, 8>>, <<8000, 8005, 1, 8>>, <<8017, 8023, 2, 8>>, <<8032, 8039, 1, 8>>,
      <<8048, 8049, 1, 74>>, <<8050, 8053, 1, 86>>, <<8054, 8055, 1, 100>>, <<8056, 8057, 1, 128>>,
      <<8058, 8059, 1, 112>>, <<8060, 8061, 1, 126>>, <<8112, 8113, 1, 8>>,
      <<8126, 8126, 1, -7205>>, <<8144, 8145, 1, 8>>, <<8160, 8161, 1, 8>>, <<8165, 8165, 1, 7>>,
      <<8526, 8526, 1, -28>>, <<8560, 8575, 1, -16>>, <<8580, 8580, 1, -1>>,
      <<9424, 9449, 1, -26>>, <<11312, 11359, 1, -48>>, <<11361, 11361, 1, -1>>,
      <<11365, 11365, 1, -10795>>, <<11366, 11366, 1, -10792>>, <<11368, 11372, 2, -1>>,
      <<11379, 11379, 1, -1>>, <<11382, 11382, 1, -1>>, <<11393, 11491, 2, -1>>,
      <<11500, 11502, 2, -1>>, <<11507, 11507, 1, -1>>, <<11520, 11557, 1, -7264>>,
      <<11559, 11559, 1, -7264>>, <<11565, 11565, 1, -7264>>, <<42561, 42605, 2, -1>>,
      <<42625, 42651, 2, -1>>, <<42787, 42799, 2, -1>>, <<42803, 42863, 2, -1>>,
      <<42874, 42876, 2, -1>>, <<42879, 42887, 2, -1>>, <<42892, 42892, 1, -1>>,
      <<42897, 42899, 2, -1>>, <<42900, 42900, 1, 48>>, <<42903, 42921, 2, -1>>,
      <<42933, 42947, 2, -1>>, <<42952, 42954, 2, -1>>, <<42957, 42971, 2, -1>>,
      <<42998, 42998, 1, -1>>, <<43859, 43859, 1, -928>>, <<43888, 43967, 1, -38864>>,
      <<65345, 65370, 1, -32>>, <<66600, 66639, 1, -40>>, <<66776, 66811, 1, -40>>,
      <<66967, 67003, 2, -39>>, <<66968, 66976, 2, -39>>, <<66980, 66992, 2, -39>>,
      <<66996, 67000, 2, -39>>, <<67004, 67004, 1, -39>>, <<68800, 68850, 1, -64>>,
      <<68976, 68997, 1, -32>>, <<71872, 71903, 1, -32>>, <<93792, 93823, 1, -32>>,
      <<93883, 93907, 1, -27>>, <<125218, 125251, 1, -34>>>>

UpperTable ==
    (223 :> <<83, 83>>) @@ (329 :> <<700, 78>>) @@ (496 :> <<74, 780>>) @@
    (912 :> <<921, 776, 769>>) @@ (944 :> <<933, 776, 769>>) @@ (1415 :> <<1333, 1362>>) @@
    (7830 :> <<72, 817>>) @@ (7831 :> <<84, 776>>) @@ (7832 :> <<87, 778>>) @@
    (7833 :> <<89, 778>>) @@ (7834 :> <<65, 702>>) @@ (8016 :> <<933, 787>>) @@
    (8018 :> <<933, 787, 768>>) @@ (8020 :> <<933, 787, 769>>) @@ (8022 :> <<933, 787, 834>>) @@
    (8064 :> <<7944, 921>>) @@ (8065 :> <<7945, 921>>) @@ (8066 :> <<7946, 921>>) @@
    (8067 :> <<7947, 921>>) @@ (8068 :> <<7948, 921>>) @@ (8069 :> <<7949, 921>>) @@
    (8070 :> <<7950, 921>>) @@ (8071 :> <<7951, 921>>) @@ (8072 :> <<7944, 921>>) @@
    (8073 :> <<7945, 921>>) @@ (8074 :> <<7946, 921>>) @@ (8075 :> <<7947, 921>>) @@
    (8076 :> <<7948, 921>>) @@ (8077 :> <<7949, 921>>) @@ (8078 :> <<7950, 921>>) @@
    (8079 :> <<7951, 921>>) @@ (8080 :> <<7976, 921>>) @@ (8081 :> <<7977, 921>>) @@
    (8082 :> <<7978, 921>>) @@ (8083 :> <<7979, 921>>) @@ (8084 :> <<7980, 921>>) @@
    (8085 :> <<7981, 921>>) @@ (8086 :> <<7982, 921>>) @@ (8087 :> <<7983, 921>>) @@
    (8088 :> <<7976, 921>>) @@ (8089 :> <<7977, 921>>) @@ (8090 :> <<7978, 921>>) @@
    (8091 :> <<7979, 921>>) @@ (8092 :> <<7980, 921>>) @@ (8093 :> <<7981, 921>>) @@
    (8094 :> <<7982, 921>>) @@ (8095 :> <<7983, 921>>) @@ (8096 :> <<8040, 921>>) @@
    (8097 :> <<8041, 921>>) @@ (8098 :> <<8042, 921>>) @@ (8099 :> <<8043, 921>>) @@
    (8100 :> <<8044, 921>>) @@ (8101 :> <<8045, 921>>) @@ (8102 :> <<8046, 921>>) @@
    (8103 :> <<8047, 921>>) @@ (8104 :> <<8040, 921>>) @@ (8105 :> <<8041, 921>>) @@
    (8106 :> <<8042, 921>>) @@ (8107 :> <<8043, 921>>) @@ (8108 :> <<8044, 921>>) @@
    (8109 :> <<8045, 921>>) @@ (8110 :> <<8046, 921>>) @@ (8111 :> <<8047, 921>>) @@
    (8114 :> <<8122, 921>>) @@ (8115 :> <<913, 921>>) @@ (8116 :> <<902, 921>>) @@
    (8118 :> <<913, 834>>) @@ (8119 :> <<913, 834, 921>>) @@ (8124 :> <<913, 921>>) @@
    (8130 :> <<8138, 921>>) @@ (8131 :> <<919, 921>>) @@ (8132 :> <<905, 921>>) @@
    (8134 :> <<919, 834>>) @@ (8135 :> <<919, 834, 921>>) @@ (8140 :> <<919, 921>>) @@
    (8146 :> <<921, 776, 768>>) @@ (8147 :> <<921, 776, 769>>) @@ (8150 :> <<921, 834>>) @@
    (8151 :> <<921, 776, 834>>) @@ (8162 :> <<933, 776, 768>>) @@ (8163 :> <<933, 776, 769>>) @@
    (8164 :> <<929, 787>>) @@ (8166 :> <<933, 834>>) @@ (8167 :> <<933, 776, 834>>) @@
    (8178 :> <<8186, 921>>) @@ (8179 :> <<937, 921>>) @@ (8180 :> <<911, 921>>) @@
    (8182 :> <<937, 834>>) @@ (8183 :> <<937, 834, 921>>) @@ (8188 :> <<937, 921>>) @@
    (64256 :> <<70, 70>>) @@ (64257 :> <<70, 73>>) @@ (64258 :> <<70, 76>>) @@
    (64259 :> <<70, 70, 73>>) @@ (64260 :> <<70, 70, 76>>) @@ (64261 :> <<83, 84>>) @@
    (64262 :> <<83, 84>>) @@ (64275 :> <<1348, 1350>>) @@ (64276 :> <<1348, 1333>>) @@
    (64277 :> <<1348, 1339>>) @@ (64278 :> <<1358, 1350>>) @@ (64279 :> <<1348, 1341>>)

LowerRanges ==
    <<<<65, 90, 1, 32>>, <<192, 214, 1, 32>>, <<216, 222, 1, 32>>, <<256, 302, 2, 1>>,
      <<306, 310, 2, 1>>, <<313, 327, 2, 1>>, <<330, 374, 2, 1>>, <<376, 376, 1, -121>>,
      <<377, 381, 2, 1>>, <<385, 385, 1, 210>>, <<386, 388, 2, 1>>, <<390, 390, 1, 206>>,
      <<391, 391, 1, 1>>, <<393, 394, 1, 205>>, <<395, 395, 1, 1>>, <<398, 398, 1, 79>>,
      <<399, 399, 1, 202>>, <<400, 400, 1, 203>>, <<401, 401, 1, 1>>, <<403, 403, 1, 205>>,
      <<404, 404, 1, 207>>, <<406, 406, 1, 211>>, <<407, 407, 1, 209>>, <<408, 408, 1, 1>>,
      <<412, 412, 1, 211>>, <<413, 413, 1, 213>>, <<415, 415, 1, 214>>, <<416, 420, 2, 1>>,
      <<422, 422, 1, 218>>, <<423, 423, 1, 1>>, <<425, 425, 1, 218>>, <<428, 428, 1, 1>>,
      <<430, 430, 1, 218>>, <<431, 431, 1, 1>>, <<433, 434, 1, 217>>, <<435, 437, 2, 1>>,
      <<439, 439, 1, 219>>, <<440, 440, 1, 1>>, <<444, 444, 1, 1>>, <<452, 452, 1, 2>>,
      <<453, 453, 1, 1>>, <<455, 455, 1, 2>>, <<456, 456, 1, 1>>, <<458, 458, 1, 2>>,
      <<459, 475, 2, 1>>, <<478, 494, 2, 1>>, <<497, 497, 1, 2>>, <<498, 500, 2, 1>>,
      <<502, 502, 1, -97>>, <<503, 503, 1, -56>>, <<504, 542, 2, 1>>, <<544, 544, 1, -130>>,
      <<546, 562, 2, 1>>, <<570, 570, 1, 10795>>, <<571, 571, 1, 1>>, <<573, 573, 1, -163>>,
      <<574, 574, 1, 10792>>, <<577, 577, 1, 1>>, <<579, 579, 1, -195>>, <<580, 580, 1, 69>>,
      <<581, 581, 1, 71>>, <<582, 590, 2, 1>>, <<880, 882, 2, 1>>, <<886, 886, 1, 1>>,
      <<895, 895, 1, 116>>, <<902, 902, 1, 38>>, <<904, 906, 1, 37>>, <<908, 908, 1, 64>>,
      <<910, 911, 1, 63>>, <<913, 929, 1, 32>>, <<931, 939, 1, 32>>, <<975, 975, 1, 8>>,
      <<984, 1006, 2, 1>>, <<1012, 1012, 1, -60>>, <<1015, 1015, 1, 1>>, <<1017, 1017, 1, -7>>,
      <<1018, 1018, 1, 1>>, <<1021, 1023, 1, -130>>, <<1024, 1039, 1, 80>>, <<1040, 1071, 1, 32>>,
      <<1120, 1152, 2, 1>>, <<1162, 1214, 2, 1>>, <<1216, 1216, 1, 15>>, <<1217, 1229, 2, 1>>,
      <<1232, 1326, 2, 1>>, <<1329, 1366, 1, 48>>, <<4256, 4293, 1, 7264>>,
      <<4295, 4295, 1, 7264>>, <<4301, 4301, 1, 7264>>, <<5024, 5103, 1, 38864>>,
      <<5104, 5109, 1, 8>>, <<7305, 7305, 1, 1>>, <<7312, 7354, 1, -3008>>,
      <<7357, 7359, 1, -3008>>, <<7680, 7828, 2, 1>>, <<7838, 7838, 1, -7615>>,
      <<7840, 7934, 2, 1>>, <<7944, 7951, 1, -8>>, <<7960, 7965, 1, -8>>, <<7976, 7983, 1, -8>>,
      <<7992, 7999, 1, -8>>, <<8008, 8013, 1, -8>>, <<8025, 8031, 2, -8>>, <<8040, 8047, 1, -8>>,
      <<8072, 8079, 1, -8>>, <<8088, 8095, 1, -8>>, <<8104, 8111, 1, -8>>, <<8120, 8121, 1, -8>>,
      <<8122, 8123, 1, -74>>, <<8124, 8124, 1, -9>>, <<8136, 8139, 1, -86>>, <<8140, 8140, 1, -9>>,
      <<8152, 8153, 1, -8>>, <<8154, 8155, 1, -100>>, <<8168, 8169, 1, -8>>,
      <<8170, 8171, 1, -112>>, <<8172, 8172, 1, -7>>, <<8184, 8185, 1, -128>>,
      <<8186, 8187, 1, -126>>, <<8188, 8188, 1, -9>>, <<8486, 8486, 1, -7517>>,
      <<8490, 8490, 1, -8383>>, <<8491, 8491, 1, -8262>>, <<8498, 8498, 1, 28>>,
      <<8544, 8559, 1, 16>>, <<8579, 8579, 1, 1>>, <<9398, 9423, 1, 26>>, <<11264, 11311, 1, 48>>,
      <<11360, 11360, 1, 1>>, <<11362, 11362, 1, -10743>>, <<11363, 11363, 1, -3814>>,
      <<11364, 11364, 1, -10727>>, <<11367, 11371, 2, 1>>, <<11373, 11373, 1, -10780>>,
      <<11374, 11374, 1, -10749>>, <<11375, 11375, 1, -10783>>, <<11376, 11376, 1, -10782>>,
      <<11378, 11378, 1, 1>>, <<11381, 11381, 1, 1>>, <<11390, 11391, 1, -10815>>,
      <<11392, 11490, 2, 1>>, <<11499, 11501, 2, 1>>, <<11506, 11506, 1, 1>>,
      <<42560, 42604, 2, 1>>, <<42624, 42650, 2, 1>>, <<42786, 42798, 2, 1>>,
      <<42802, 42862, 2, 1>>, <<42873, 42875, 2, 1>>, <<42877, 42877, 1, -35332>>,
      <<42878, 42886, 2, 1>>, <<42891, 42891, 1, 1>>, <<42893, 42893, 1, -42280>>,
      <<42896, 42898, 2, 1>>, <<42902, 42920, 2, 1>>, <<42922, 42922, 1, -42308>>,
      <<42923, 42923, 1, -42319>>, <<42924, 42924, 1, -42315>>, <<42925, 42925, 1, -42305>>,
      <<42926, 42926, 1, -42308>>, <<42928, 42928, 1, -42258>>, <<42929, 42929, 1, -42282>>,
      <<42930, 42930, 1, -42261>>, <<42931, 42931, 1, 928>>, <<42932, 42946, 2, 1>>,
      <<42948, 42948, 1, -48>>, <<42949, 42949, 1, -42307>>, <<42950, 42950, 1, -35384>>,
      <<42951, 42953, 2, 1>>, <<42955, 42955, 1, -42343>>, <<42956, 42970, 2, 1>>,
      <<42972, 42972, 1, -42561>>, <<42997, 42997, 1, 1>>, <<65313, 65338, 1, 32>>,
      <<66560, 66599, 1, 40>>, <<66736, 66771, 1, 40>>, <<66928, 66964, 2, 39>>,
      <<66929, 66937, 2, 39>>, <<66941, 66953, 2, 39>>, <<66957, 66961, 2, 39>>,
      <<66965, 66965, 1, 39>>, <<68736, 68786, 1, 64>>, <<68944, 68965, 1, 32>>,
      <<71840, 71871, 1, 32>>, <<93760, 93791, 1, 32>>, <<93856, 93880, 1, 27>>,
      <<125184, 125217, 1, 34>>>>

LowerTable ==
    (304 :> <<105, 775>>)

CaseDelta(rs, c) ==
    LET hits == {k \in 1..Len(rs) : c >= rs[k][1] /\ c <= rs[k][2] /\ (c - rs[k][1]) % rs[k][3] = 0}
    IN  IF hits = {} THEN 0 ELSE rs[CHOOSE k \in hits : TRUE][4]

\* char::to_uppercase / char::to_lowercase: the text a character maps to.
\* A character with no case ('#', the sharp and flat signs, digits,
\* punctuation) maps to itself.
ToUpperChar(c) ==
    IF c < 128 THEN <<AsciiUpperChar(c)>>
    ELSE IF c \in DOMAIN UpperTable THEN UpperTable[c]
    ELSE <<c + CaseDelta(UpperRanges, c)>>

ToLowerChar(c) ==
    IF c < 128 THEN <<AsciiLowerChar(c)>>
    ELSE IF c \in DOMAIN LowerTable THEN LowerTable[c]
    ELSE <<c + CaseDelta(LowerRanges, c)>>

\* The Unicode properties Cased and Case_Ignorable, as ranges <<first, last>>.
CasedRanges ==
    <<<<65, 90>>, <<97, 122>>, <<170, 170>>, <<181, 181>>, <<186, 186>>, <<192, 214>>,
      <<216, 246>>, <<248, 442>>, <<444, 447>>, <<452, 659>>, <<662, 696>>, <<704, 705>>,
      <<736, 740>>, <<837, 837>>, <<880, 883>>, <<886, 887>>, <<890, 893>>, <<895, 895>>,
      <<902, 902>>, <<904, 906>>, <<908, 908>>, <<910, 929>>, <<931, 1013>>, <<1015, 1153>>,
      <<1162, 1327>>, <<1329, 1366>>, <<1376, 1416>>, <<4256, 4293>>, <<4295, 4295>>,
      <<4301, 4301>>, <<4304, 4346>>, <<4348, 4351>>, <<5024, 5109>>, <<5112, 5117>>,
      <<7296, 7306>>, <<7312, 7354>>, <<7357, 7359>>, <<7424, 7615>>, <<7680, 7957>>,
      <<7960, 7965>>, <<7968, 8005>>, <<8008, 8013>>, <<8016, 8023>>, <<8025, 8025>>,
      <<8027, 8027>>, <<8029, 8029>>, <<8031, 8061>>, <<8064, 8116>>, <<8118, 8124>>,
      <<8126, 8126>>, <<8130, 8132>>, <<8134, 8140>>, <<8144, 8147>>, <<8150, 8155>>,
      <<8160, 8172>>, <<8178, 8180>>, <<8182, 8188>>, <<8305, 8305>>, <<8319, 8319>>,
      <<8336, 8348>>, <<8450, 8450>>, <<8455, 8455>>, <<8458, 8467>>, <<8469, 8469>>,
      <<8473, 8477>>, <<8484, 8484>>, <<8486, 8486>>, <<8488, 8488>>, <<8490, 8493>>,
      <<8495, 8500>>, <<8505, 8505>>, <<8508, 8511>>, <<8517, 8521>>, <<8526, 8526>>,
      <<8544, 8575>>, <<8579, 8580>>, <<9398, 9449>>, <<11264, 11492>>, <<11499, 11502>>,
      <<11506, 11507>>, <<11520, 11557>>, <<11559, 11559>>, <<11565, 11565>>, <<42560, 42605>>,
      <<42624, 42653>>, <<42786, 42887>>, <<42891, 42894>>, <<42896, 42972>>, <<42993, 42998>>,
      <<43000, 43002>>, <<43824, 43866>>, <<43868, 43881>>, <<43888, 43967>>, <<64256, 64262>>,
      <<64275, 64279>>, <<65313, 65338>>, <<65345, 65370>>, <<66560, 66639>>, <<66736, 66771>>,
      <<66776, 66811>>, <<66928, 66938>>, <<66940, 66954>>, <<66956, 66962>>, <<66964, 66965>>,
      <<66967, 66977>>, <<66979, 66993>>, <<66995, 67001>>, <<67003, 67004>>, <<67456, 67456>>,
      <<67459, 67461>>, <<67463, 67504>>, <<67506, 67514>>, <<68736, 68786>>, <<68800, 68850>>,
      <<68944, 68965>>, <<68976, 68997>>, <<71840, 71903>>, <<93760, 93823>>, <<93856, 93880>>,
      <<93883, 93907>>, <<119808, 119892>>, <<119894, 119964>>, <<119966, 119967>>,
      <<119970, 119970>>, <<119973, 119974>>, <<119977, 119980>>, <<119982, 119993>>,
      <<119995, 119995>>, <<119997, 120003>>, <<120005, 120069>>, <<120071, 120074>>,
      <<120077, 120084>>, <<120086, 120092>>, <<120094, 120121>>, <<120123, 120126>>,
      <<120128, 120132>>, <<120134, 120134>>, <<120138, 120144>>, <<120146, 120485>>,
      <<120488, 120512>>, <<120514, 120538>>, <<120540, 120570>>, <<120572, 120596>>,
      <<120598, 120628>>, <<120630, 120654>>, <<120656, 120686>>, <<120688, 120712>>,
      <<120714, 120744>>, <<120746, 120770>>, <<120772, 120779>>, <<122624, 122633>>,
      <<122635, 122654>>, <<122661, 122666>>, <<122928, 122989>>, <<125184, 125251>>,
      <<127280, 127305>>, <<127312, 127337>>, <<127344, 127369>>>>

CaseIgnorableRanges ==
    <<<<39, 39>>, <<46, 46>>, <<58, 58>>, <<94, 94>>, <<96, 96>>, <<168, 168>>, <<173, 173>>,
      <<175, 175>>, <<180, 180>>, <<183, 184>>, <<688, 879>>, <<884, 885>>, <<890, 890>>,
      <<900, 901>>, <<903, 903>>, <<1155, 1161>>, <<1369, 1369>>, <<1375, 1375>>, <<1425, 1469>>,
      <<1471, 1471>>, <<1473, 1474>>, <<1476, 1477>>, <<1479, 1479>>, <<1524, 1524>>,
      <<1536, 1541>>, <<1552, 1562>>, <<1564, 1564>>, <<1600, 1600>>, <<1611, 1631>>,
      <<1648, 1648>>, <<1750, 1757>>, <<1759, 1768>>, <<1770, 1773>>, <<1807, 1807>>,
      <<1809, 1809>>, <<1840, 1866>>, <<1958, 1968>>, <<2027, 2037>>, <<2042, 2042>>,
      <<2045, 2045>>, <<2070, 2093>>, <<2137, 2139>>, <<2184, 2184>>, <<2192, 2193>>,
      <<2199, 2207>>, <<2249, 2306>>, <<2362, 2362>>, <<2364, 2364>>, <<2369, 2376>>,
      <<2381, 2381>>, <<2385, 2391>>, <<2402, 2403>>, <<2417, 2417>>, <<2433, 2433>>,
      <<2492, 2492>>, <<2497, 2500>>, <<2509, 2509>>, <<2530, 2531>>, <<2558, 2558>>,
      <<2561, 2562>>, <<2620, 2620>>, <<2625, 2626>>, <<2631, 2632>>, <<2635, 2637>>,
      <<2641, 2641>>, <<2672, 2673>>, <<2677, 2677>>, <<2689, 2690>>, <<2748, 2748>>,
      <<2753, 2757>>, <<2759, 2760>>, <<2765, 2765>>, <<2786, 2787>>, <<2810, 2815>>,
      <<2817, 2817>>, <<2876, 2876>>, <<2879, 2879>>, <<2881, 2884>>, <<2893, 2893>>,
      <<2901, 2902>>, <<2914, 2915>>, <<2946, 2946>>, <<3008, 3008>>, <<3021, 3021>>,
      <<3072, 3072>>, <<3076, 3076>>, <<3132, 3132>>, <<3134, 3136>>, <<3142, 3144>>,
      <<3146, 3149>>, <<3157, 3158>>, <<3170, 3171>>, <<3201, 3201>>, <<3260, 3260>>,
      <<3263, 3263>>, <<3270, 3270>>, <<3276, 3277>>, <<3298, 3299>>, <<3328, 3329>>,
      <<3387, 3388>>, <<3393, 3396>>, <<3405, 3405>>, <<3426, 3427>>, <<3457, 3457>>,
      <<3530, 3530>>, <<3538, 3540>>, <<3542, 3542>>, <<3633, 3633>>, <<3636, 3642>>,
      <<3654, 3662>>, <<3761, 3761>>, <<3764, 3772>>, <<3782, 3782>>, <<3784, 3790>>,
      <<3864, 3865>>, <<3893, 3893>>, <<3895, 3895>>, <<3897, 3897>>, <<3953, 3966>>,
      <<3968, 3972>>, <<3974, 3975>>, <<3981, 3991>>, <<3993, 4028>>, <<4038, 4038>>,
      <<4141, 4144>>, <<4146, 4151>>, <<4153, 4154>>, <<4157, 4158>>, <<4184, 4185>>,
      <<4190, 4192>>, <<4209, 4212>>, <<4226, 4226>>, <<4229, 4230>>, <<4237, 4237>>,
      <<4253, 4253>>, <<4348, 4348>>, <<4957, 4959>>, <<5906, 5908>>, <<5938, 5939>>,
      <<5970, 5971>>, <<6002, 6003>>, <<6068, 6069>>, <<6071, 6077>>, <<6086, 6086>>,
      <<6089, 6099>>, <<6103, 6103>>, <<6109, 6109>>, <<6155, 6159>>, <<6211, 6211>>,
      <<6277, 6278>>, <<6313, 6313>>, <<6432, 6434>>, <<6439, 6440>>, <<6450, 6450>>,
      <<6457, 6459>>, <<6679, 6680>>, <<6683, 6683>>, <<6742, 6742>>, <<6744, 6750>>,
      <<6752, 6752>>, <<6754, 6754>>, <<6757, 6764>>, <<6771, 6780>>, <<6783, 6783>>,
      <<6823, 6823>>, <<6832, 6877>>, <<6880, 6891>>, <<6912, 6915>>, <<6964, 6964>>,
      <<6966, 6970>>, <<6972, 6972>>, <<6978, 6978>>, <<7019, 7027>>, <<7040, 7041>>,
      <<7074, 7077>>, <<7080, 7081>>, <<7083, 7085>>, <<7142, 7142>>, <<7144, 7145>>,
      <<7149, 7149>>, <<7151, 7153>>, <<7212, 7219>>, <<7222, 7223>>, <<7288, 7293>>,
      <<7376, 7378>>, <<7380, 7392>>, <<7394, 7400>>, <<7405, 7405>>, <<7412, 7412>>,
      <<7416, 7417>>, <<7468, 7530>>, <<7544, 7544>>, <<7579, 7679>>, <<8125, 8125>>,
      <<8127, 8129>>, <<8141, 8143>>, <<8157, 8159>>, <<8173, 8175>>, <<8189, 8190>>,
      <<8203, 8207>>, <<8216, 8217>>, <<8228, 8228>>, <<8231, 8231>>, <<8234, 8238>>,
      <<8288, 8292>>, <<8294, 8303>>, <<8305, 8305>>, <<8319, 8319>>, <<8336, 8348>>,
      <<8400, 8432>>, <<11388, 11389>>, <<11503, 11505>>, <<11631, 11631>>, <<11647, 11647>>,
      <<11744, 11775>>, <<11823, 11823>>, <<12293, 12293>>, <<12330, 12333>>, <<12337, 12341>>,
      <<12347, 12347>>, <<12441, 12446>>, <<12540, 12542>>, <<40981, 40981>>, <<42232, 42237>>,
      <<42508, 42508>>, <<42607, 42610>>, <<42612, 42621>>, <<42623, 42623>>, <<42652, 42655>>,
      <<42736, 42737>>, <<42752, 42785>>, <<42864, 42864>>, <<42888, 42890>>, <<42993, 42996>>,
      <<43000, 43001>>, <<43010, 43010>>, <<43014, 43014>>, <<43019, 43019>>, <<43045, 43046>>,
      <<43052, 43052>>, <<43204, 43205>>, <<43232, 43249>>, <<43263, 43263>>, <<43302, 43309>>,
      <<43335, 43345>>, <<43392, 43394>>, <<43443, 43443>>, <<43446, 43449>>, <<43452, 43453>>,
      <<43471, 43471>>, <<43493, 43494>>, <<43561, 43566>>, <<43569, 43570>>, <<43573, 43574>>,
      <<43587, 43587>>, <<43596, 43596>>, <<43632, 43632>>, <<43644, 43644>>, <<43696, 43696>>,
      <<43698, 43700>>, <<43703, 43704>>, <<43710, 43711>>, <<43713, 43713>>, <<43741, 43741>>,
      <<43756, 43757>>, <<43763, 43764>>, <<43766, 43766>>, <<43867, 43871>>, <<43881, 43883>>,
      <<44005, 44005>>, <<44008, 44008>>, <<44013, 44013>>, <<64286, 64286>>, <<64434, 64450>>,
      <<65024, 65039>>, <<65043, 65043>>, <<65056, 65071>>, <<65106, 65106>>, <<65109, 65109>>,
      <<65279, 65279>>, <<65287, 65287>>, <<65294, 65294>>, <<65306, 65306>>, <<65342, 65342>>,
      <<65344, 65344>>, <<65392, 65392>>, <<65438, 65439>>, <<65507, 65507>>, <<65529, 65531>>,
      <<66045, 66045>>, <<66272, 66272>>, <<66422, 66426>>, <<67456, 67461>>, <<67463, 67504>>,
      <<67506, 67514>>, <<68097, 68099>>, <<68101, 68102>>, <<68108, 68111>>, <<68152, 68154>>,
      <<68159, 68159>>, <<68325, 68326>>, <<68900, 68903>>, <<68942, 68942>>, <<68969, 68973>>,
      <<68975, 68975>>, <<69291, 69292>>, <<69317, 69317>>, <<69370, 69375>>, <<69446, 69456>>,
      <<69506, 69509>>, <<69633, 69633>>, <<69688, 69702>>, <<69744, 69744>>, <<69747, 69748>>,
      <<69759, 69761>>, <<69811, 69814>>, <<69817, 69818>>, <<69821, 69821>>, <<69826, 69826>>,
      <<69837, 69837>>, <<69888, 69890>>, <<69927, 69931>>, <<69933, 69940>>, <<70003, 70003>>,
      <<70016, 70017>>, <<70070, 70078>>, <<70089, 70092>>, <<70095, 70095>>, <<70191, 70193>>,
      <<70196, 70196>>, <<70198, 70199>>, <<70206, 70206>>, <<70209, 70209>>, <<70367, 70367>>,
      <<70371, 70378>>, <<70400, 70401>>, <<70459, 70460>>, <<70464, 70464>>, <<70502, 70508>>,
      <<70512, 70516>>, <<70587, 70592>>, <<70606, 70606>>, <<70608, 70608>>, <<70610, 70610>>,
      <<70625, 70626>>, <<70712, 70719>>, <<70722, 70724>>, <<70726, 70726>>, <<70750, 70750>>,
      <<70835, 70840>>, <<70842, 70842>>, <<70847, 70848>>, <<70850, 70851>>, <<71090, 71093>>,
      <<71100, 71101>>, <<71103, 71104>>, <<71132, 71133>>, <<71219, 71226>>, <<71229, 71229>>,
      <<71231, 71232>>, <<71339, 71339>>, <<71341, 71341>>, <<71344, 71349>>, <<71351, 71351>>,
      <<71453, 71453>>, <<71455, 71455>>, <<71458, 71461>>, <<71463, 71467>>, <<71727, 71735>>,
      <<71737, 71738>>, <<71995, 71996>>, <<71998, 71998>>, <<72003, 72003>>, <<72148, 72151>>,
      <<72154, 72155>>, <<72160, 72160>>, <<72193, 72202>>, <<72243, 72248>>, <<72251, 72254>>,
      <<72263, 72263>>, <<72273, 72278>>, <<72281, 72283>>, <<72330, 72342>>, <<72344, 72345>>,
      <<72544, 72544>>, <<72546, 72548>>, <<72550, 72550>>, <<72752, 72758>>, <<72760, 72765>>,
      <<72767, 72767>>, <<72850, 72871>>, <<72874, 72880>>, <<72882, 72883>>, <<72885, 72886>>,
      <<73009, 73014>>, <<73018, 73018>>, <<73020, 73021>>, <<73023, 73029>>, <<73031, 73031>>,
      <<73104, 73105>>, <<73109, 73109>>, <<73111, 73111>>, <<73177, 73177>>, <<73459, 73460>>,
      <<73472, 73473>>, <<73526, 73530>>, <<73536, 73536>>, <<73538, 73538>>, <<73562, 73562>>,
      <<78896, 78912>>, <<78919, 78933>>, <<90398, 90409>>, <<90413, 90415>>, <<92912, 92916>>,
      <<92976, 92982>>, <<92992, 92995>>, <<93504, 93506>>, <<93547, 93548>>, <<94031, 94031>>,
      <<94095, 94111>>, <<94176, 94177>>, <<94179, 94180>>, <<94194, 94195>>, <<110576, 110579>>,
      <<110581, 110587>>, <<110589, 110590>>, <<113821, 113822>>, <<113824, 113827>>,
      <<118528, 118573>>, <<118576, 118598>>, <<119143, 119145>>, <<119155, 119170>>,
      <<119173, 119179>>, <<119210, 119213>>, <<119362, 119364>>, <<121344, 121398>>,
      <<121403, 121452>>, <<121461, 121461>>, <<121476, 121476>>, <<121499, 121503>>,
      <<121505, 121519>>, <<122880, 122886>>, <<122888, 122904>>, <<122907, 122913>>,
      <<122915, 122916>>, <<122918, 122922>>, <<122928, 122989>>, <<123023, 123023>>,
      <<123184, 123197>>, <<123566, 123566>>, <<123628, 123631>>, <<124139, 124143>>,
      <<124398, 124399>>, <<124643, 124643>>, <<124646, 124646>>, <<124654, 124655>>,
      <<124661, 124661>>, <<124671, 124671>>, <<125136, 125142>>, <<125252, 125259>>,
      <<127995, 127999>>, <<917505, 917505>>, <<917536, 917631>>, <<917760, 917999>>>>

InRanges(rs, c) == \E k \in 1..Len(rs) : c >= rs[k][1] /\ c <= rs[k][2]

Cased(c) == InRanges(CasedRanges, c)
CaseIgnorable(c) == InRanges(CaseIgnorableRanges, c)

\* The first character of s that is not case-ignorable is cased.
RECURSIVE case_ignorable_then_cased(_)
case_ignorable_then_cased(s) ==
    IF s = <<>> THEN FALSE
    ELSE IF CaseIgnorable(Head(s)) THEN case_ignorable_then_cased(Tail(s))
    ELSE Cased(Head(s))

Reversed(s) == [i \in 1..Len(s) |-> s[Len(s) + 1 - i]]

\* str::to_lowercase maps a capital sigma (U+03A3) at the end of a word to the
\* final sigma U+03C2: when a cased letter comes before it and none comes
\* after it; to U+03C3 otherwise.
map_uppercase_sigma(s, i) ==
    IF case_ignorable_then_cased(Reversed(SubSeq(s, 1, i - 1)))
       /\ ~case_ignorable_then_cased(SubSeq(s, i + 1, Len(s)))
    THEN <<962>> ELSE <<963>>

RECURSIVE UpperFrom(_, _)
UpperFrom(s, i) == IF i > Len(s) THEN <<>> ELSE ToUpperChar(s[i]) \o UpperFrom(s, i + 1)

RECURSIVE LowerFrom(_, _)
LowerFrom(s, i) ==
    IF i > Len(s) THEN <<>>
    ELSE (IF s[i] = 931 THEN map_uppercase_sigma(s, i) ELSE ToLowerChar(s[i])) \o LowerFrom(s, i + 1)

\* str::to_uppercase / str::to_lowercase
to_uppercase(s) == UpperFrom(s, 1)
to_lowercase(s) == LowerFrom(s, 1)

\* char::is_whitespace: the characters with the Unicode property White_Space
\* (U+0009..U+000D, U+0020, U+0085, U+00A0, U+1680, U+2000..U+200A, U+2028,
\* U+2029, U+202F, U+205F, U+3000).
IsWhitespace(c) ==
    \/ c \in 9..13 \/ c \in 8192..8202
    \/ c \in {32, 133, 160, 5760, 8232, 8233, 8239, 8287, 12288}

RECURSIVE TrimStart(_)
TrimStart(s) == IF s # <<>> /\ IsWhitespace(Head(s)) THEN TrimStart(Tail(s)) ELSE s

RECURSIVE TrimEnd(_)
TrimEnd(s) == IF s # <<>> /\ IsWhitespace(s[Len(s)]) THEN TrimEnd(SubSeq(s, 1, Len(s) - 1)) ELSE s

trim(s) == TrimEnd(TrimStart(s))

\* str::split_whitespace: the maximal runs of non-whitespace characters.
RECURSIVE SplitFrom(_, _, _)
SplitFrom(s, cur, acc) ==
    IF s = <<>>
    THEN IF cur = <<>> THEN acc ELSE Append(acc, cur)
    ELSE IF IsWhitespace(Head(s))
         THEN SplitFrom(Tail(s), <<>>, IF cur = <<>> THEN acc ELSE Append(acc, cur))
         ELSE SplitFrom(Tail(s), Append(cur, Head(s)), acc)

split_whitespace(s) == SplitFrom(s, <<>>, <<>>)

(***************************************************************************)
(* models/key.rs: the key codec.                                           *)
(***************************************************************************)
\* The characters U+266F (music sharp sign) and U+266D (music flat sign),
\* which have no case.
SharpSign == Hex(<<"2","6","6","F">>)
FlatSign == Hex(<<"2","6","6","D">>)

NoKey == [ok |-> FALSE, code |-> 0, note |-> <<>>, mode |-> <<>>, err |-> "None", text |-> <<>>]

NoteBase(note_num) ==
    CASE note_num = 1 -> Txt(<<"C">>)
      [] note_num = 2 -> Txt(<<"D">>)
      [] note_num = 3 -> Txt(<<"E">>)
      [] note_num = 4 -> Txt(<<"F">>)
      [] note_num = 5 -> Txt(<<"G">>)
      [] note_num = 6 -> Txt(<<"A">>)
      [] note_num = 7 -> Txt(<<"B">>)
      [] OTHER -> <<>>

\* MusicalKey::from_code: None for code <= 0 and for a hundreds part outside
\* 1..7; the note is sharp exactly when the tens digit is 1, and the mode is
\* Major exactly when the last digit is 0.
from_code(code) ==
    IF code <= 0 THEN NoKey
    ELSE LET note_num == code \div 100
             sharp == (code \div 10) % 10
             mode_num == code % 10
         IN  IF NoteBase(note_num) = <<>> THEN NoKey
             ELSE [ok |-> TRUE,
                   code |-> code,
                   note |-> IF sharp = 1 THEN NoteBase(note_num) \o Txt(<<"#">>) ELSE NoteBase(note_num),
                   mode |-> IF mode_num = 0 THEN Txt(<<"M","a","j","o","r">>) ELSE Txt(<<"M","i","n","o","r">>),
                   err |-> "",
                   text |-> <<>>]

\* MusicalKey::display
display(k) == k.note \o Txt(<<" ">>) \o k.mode

InvalidKey(s) == [ok |-> FALSE, code |-> 0, note |-> <<>>, mode |-> <<>>, err |-> "InvalidKey", text |-> s]

\* The note table of from_string, on the upper-cased first token: <<note, sharp>>,
\* or <<0, 0>> for a token the match does not list.
ParseNote(u) ==
    CASE u = Txt(<<"C">>) -> <<1, 0>>
      [] u \in {Txt(<<"C","#">>), <<Ch("C"),SharpSign>>, Txt(<<"D","B">>), <<Ch("D"),FlatSign>>} -> <<1, 1>>
      [] u = Txt(<<"D">>) -> <<2, 0>>
      [] u \in {Txt(<<"D","#">>), <<Ch("D"),SharpSign>>, Txt(<<"E","B">>), <<Ch("E"),FlatSign>>} -> <<2, 1>>
      [] u = Txt(<<"E">>) -> <<3, 0>>
      [] u = Txt(<<"F">>) -> <<4, 0>>
      [] u \in {Txt(<<"F","#">>), <<Ch("F"),SharpSign>>, Txt(<<"G","B">>), <<Ch("G"),FlatSign>>} -> <<4, 1>>
      [] u = Txt(<<"G">>) -> <<5, 0>>
      [] u \in {Txt(<<"G","#">>), <<Ch("G"),SharpSign>>, Txt(<<"A","B">>), <<Ch("A"),FlatSign>>} -> <<5, 1>>
      [] u = Txt(<<"A">>) -> <<6, 0>>
      [] u \in {Txt(<<"A","#">>), <<Ch("A"),SharpSign>>, Txt(<<"B","B">>), <<Ch("B"),FlatSign>>} -> <<6, 1>>
      [] u = Txt(<<"B">>) -> <<7, 0>>
      [] OTHER -> <<0, 0>>

\* The mode table of from_string, on the lower-cased second token: 0, 1, or
\* -1 for a token the match does not list.
ParseMode(l) ==
    CASE l \in {Txt(<<"m","a","j","o","r">>), Txt(<<"m","a","j">>)} -> 0
      [] l \in {Txt(<<"m","i","n","o","r">>), Txt(<<"m","i","n">>)} -> 1
      [] OTHER -> -1

\* from_string with the token count checked as "fewer than two": a text with
\* extra tokens is read by its first two.
from_string_extra_tokens(text) ==
    LET s == trim(text)
        parts == split_whitespace(s)
    IN  IF Len(parts) < 2 THEN InvalidKey(s)
        ELSE LET n == ParseNote(to_uppercase(parts[1]))
                 mode_num == ParseMode(to_lowercase(parts[2]))
             IN  IF n[1] = 0 THEN InvalidKey(s)
                 ELSE IF mode_num = -1 THEN InvalidKey(s)
                 ELSE from_code(n[1] * 100 + n[2] * 10 + mode_num)

\* MusicalKey::from_string
from_string(text) ==
    LET s == trim(text)
        parts == split_whitespace(s)
    IN  IF Len(parts) # 2 THEN InvalidKey(s)
        ELSE LET n == ParseNote(to_uppercase(parts[1]))
                 mode_num == ParseMode(to_lowercase(parts[2]))
             IN  IF n[1] = 0 THEN InvalidKey(s)
                 ELSE IF mode_num = -1 THEN InvalidKey(s)
                 ELSE from_code(n[1] * 100 + n[2] * 10 + mode_num)

(***************************************************************************)
(* db.rs: the entity tags of the shared tables.                            *)
(***************************************************************************)
BOOKMARK == 5
SCORE == 6
META == 9
COMPOSER == 10
GENRE == 12
SETLIST == 19

(***************************************************************************)
(* SQL helpers.  A table is a function from Z_PK to its row.               *)
(***************************************************************************)
Min(S) == CHOOSE x \in S : \A y \in S : x <= y
Max(S) == CHOOSE x \in S : \A y \in S : x >= y

\* COALESCE(MAX(Z_PK), 0)
MaxPk(table) == IF DOMAIN table = {} THEN 0 ELSE Max(DOMAIN table)

\* LOWER(x): SQLite folds the ASCII letters only.
LOWER(s) == [i \in 1..Len(s) |-> AsciiLowerChar(s[i])]

\* a < b for two texts under SQLite's BINARY collation: the order of the
\* UTF-8 bytes, which is the order of the code points.
RECURSIVE TextBelow(_, _)
TextBelow(a, b) ==
    IF b = <<>> THEN FALSE
    ELSE IF a = <<>> THEN TRUE
    ELSE IF Head(a) # Head(b) THEN Head(a) < Head(b)
    ELSE TextBelow(Tail(a), Tail(b))

\* x LIKE p without an ESCAPE clause: '%' matches any run of characters, '_'
\* any one character, and ASCII letters match without regard to case.  The
\* matcher reads both operands as zero-terminated texts: each ends before its
\* first U+0000.
RECURSIVE LIKE(_, _)
LIKE(t, p) ==
    IF p = <<>> \/ Head(p) = 0 THEN t = <<>> \/ Head(t) = 0
    ELSE IF Head(p) = Ch("%")
         THEN \E k \in 0..Len(t) : (\A j \in 1..k : t[j] # 0) /\ LIKE(SubSeq(t, k + 1, Len(t)), Tail(p))
         ELSE /\ t # <<>> /\ Head(t) # 0
              /\ (Head(p) = Ch("_") \/ AsciiLowerChar(Head(p)) = AsciiLowerChar(Head(t)))
              /\ LIKE(Tail(t), Tail(p))

\* format!("%{}%", name)
ContainsPattern(name) == Txt(<<"%">>) \o name \o Txt(<<"%">>)

\* char::to_digit(10): the ASCII digits '0'..'9' and no other character.
DigitValue(c) == IF c \in Ch("0")..Ch("9") THEN c - Ch("0") ELSE -1

RECURSIVE DigitsValue(_, _)
DigitsValue(s, acc) == IF s = <<>> THEN acc ELSE DigitsValue(Tail(s), acc * 10 + DigitValue(Head(s)))

\* A text of digits without its leading zeros (the last digit stays).
RECURSIVE StripZeros(_)
StripZeros(s) == IF Len(s) > 1 /\ Head(s) = Ch("0") THEN StripZeros(Tail(s)) ELSE s

\* For digit texts of one length: a is the greater number.
RECURSIVE DigitsAbove(_, _)
DigitsAbove(a, b) ==
    IF a = <<>> THEN FALSE
    ELSE IF Head(a) # Head(b) THEN DigitValue(Head(a)) > DigitValue(Head(b))
    ELSE DigitsAbove(Tail(a), Tail(b))

\* The digits of i64::MAX, and of the magnitude of i64::MIN.
I64MaxDigits == Txt(<<"9","2","2","3","3","7","2","0","3","6","8","5","4","7","7","5","8","0","7">>)
I64MinDigits == Txt(<<"9","2","2","3","3","7","2","0","3","6","8","5","4","7","7","5","8","0","8">>)

\* The number does not fit an i64: parse fails with PosOverflow / NegOverflow.
Overflows(digits, negative) ==
    LET z == StripZeros(digits)
    IN  \/ Len(z) > 19
        \/ Len(z) = 19 /\ DigitsAbove(z, IF negative THEN I64MinDigits ELSE I64MaxDigits)

\* The decimal text of an i64 given by its sign and digits, as i64::to_string
\* writes it: no leading zero, no plus sign, and no sign on zero.
I64Text(digits, negative) ==
    LET z == StripZeros(digits)
    IN  IF negative /\ z # Txt(<<"0">>) THEN Txt(<<"-">>) \o z ELSE z

\* str::parse::<i64>: an optional sign, then one or more decimal digits and
\* nothing else; None when the text is not of that form or the number does
\* not fit an i64.  The i64 is held as its decimal text, which is exact for
\* every i64.
parse_i64(s) ==
    LET body == IF s # <<>> /\ Head(s) \in Chars({"+", "-"}) THEN Tail(s) ELSE s
        negative == s # <<>> /\ Head(s) = Ch("-")
    IN  IF body = <<>> \/ \E i \in 1..Len(body) : DigitValue(body[i]) < 0 THEN None
        ELSE IF Overflows(body, negative) THEN None
        ELSE Some(I64Text(body, negative))

\* The i64 of a decimal text is among the integers a store of the model can
\* hold as keys, -2^31 .. 2^31 - 1; no row of such a store has another key, so
\* the lookup of an i64 beyond them finds no row.
InModel(t) ==
    LET negative == Head(t) = Ch("-")
        z == IF negative THEN Tail(t) ELSE t
    IN  \/ Len(z) < 10
        \/ /\ Len(z) = 10
           /\ ~DigitsAbove(z, IF negative THEN Txt(<<"2","1","4","7","4","8","3","6","4","8">>)
                              ELSE Txt(<<"2","1","4","7","4","8","3","6","4","7">>))

\* The integer of a digit text taken as a negative number, gathered below
\* zero so that -2^31 is reached.
RECURSIVE NegativeValue(_, _)
NegativeValue(s, acc) == IF s = <<>> THEN acc ELSE NegativeValue(Tail(s), acc * 10 - DigitValue(Head(s)))

\* The integer of a decimal text that is InModel.
I64Value(t) == IF Head(t) = Ch("-") THEN NegativeValue(Tail(t), 0) ELSE DigitsValue(t, 0)

\* i64::to_string
RECURSIVE NatText(_)
NatText(n) == IF n < 10 THEN <<Ch("0") + n>> ELSE Append(NatText(n \div 10), Ch("0") + (n % 10))

\* The digits of the magnitude of a negative number, taken without negating
\* it (\div rounds down and % is never negative).
RECURSIVE NegText(_)
NegText(n) ==
    LET digit == (10 - (n % 10)) % 10
        rest == IF n % 10 = 0 THEN n \div 10 ELSE (n \div 10) + 1
    IN  IF rest = 0 THEN <<Ch("0") + digit>> ELSE Append(NegText(rest), Ch("0") + digit)

to_string(n) == IF n < 0 THEN Txt(<<"-">>) \o NegText(n) ELSE NatText(n)

(***************************************************************************)
(* The resolvers.  A result is Ok(entity id) or an error with its text.    *)
(* query_row returns the first row of its result; without ORDER BY that is *)
(* the row of least Z_PK (the table's scan order).                         *)
(***************************************************************************)
Ok(id) == [ok |-> TRUE, id |-> id, err |-> "", arg |-> <<>>]
Err(e, text) == [ok |-> FALSE, id |-> 0, err |-> e, arg |-> text]

ScoreRows(d) == {i \in DOMAIN d.ZITEM : d.ZITEM[i].Z_ENT = SCORE}

\* models/score.rs get_score_by_id
get_score_by_id(d, id) ==
    IF id \in ScoreRows(d) THEN Ok(id) ELSE Err("ScoreNotFound", to_string(id))

\* models/score.rs get_score_by_path: Some(first row) or None
get_score_by_path(d, path) ==
    LET rows == {i \in ScoreRows(d) : d.ZITEM[i].ZPATH = path}
    IN  IF rows = {} THEN None ELSE Some(Min(rows))

\* The three stages of get_*_by_title / get_*_by_name over the rows `ids` of a
\* table whose title column is title[i]: exact, LOWER() = LOWER(), LIKE with
\* LIMIT 2.
ByTitleStages(ids, title, name, notFound) ==
    LET exact == {i \in ids : title[i] = name}
        nocase == {i \in ids : LOWER(title[i]) = LOWER(name)}
        contains == {i \in ids : LIKE(title[i], ContainsPattern(name))}
    IN  IF exact # {} THEN Ok(Min(exact))
        ELSE IF nocase # {} THEN Ok(Min(nocase))
        ELSE IF contains = {} THEN Err(notFound, name)
        ELSE IF Cardinality(contains) = 1 THEN Ok(Min(contains))
        ELSE Err("AmbiguousIdentifier", name)

\* models/score.rs get_score_by_title
get_score_by_title(d, title) ==
    ByTitleStages(ScoreRows(d), [i \in ScoreRows(d) |-> d.ZITEM[i].ZTITLE], title, "ScoreNotFound")

\* resolve_score trying the title before the id and the path.
resolve_score_title_first(d, identifier) ==
    LET byTitle == get_score_by_title(d, identifier)
        id == parse_i64(identifier)
    IN  IF byTitle.ok THEN byTitle
        ELSE IF IsSome(id) /\ InModel(Get(id)) /\ get_score_by_id(d, I64Value(Get(id))).ok
        THEN get_score_by_id(d, I64Value(Get(id)))
        ELSE IF IsSome(get_score_by_path(d, identifier)) THEN Ok(Get(get_score_by_path(d, identifier)))
        ELSE byTitle

\* models/score.rs resolve_score
resolve_score(d, identifier) ==
    LET id == parse_i64(identifier)
    IN  IF IsSome(id) /\ InModel(Get(id)) /\ get_score_by_id(d, I64Value(Get(id))).ok
        THEN get_score_by_id(d, I64Value(Get(id)))
        ELSE IF IsSome(get_score_by_path(d, identifier)) THEN Ok(Get(get_score_by_path(d, identifier)))
        ELSE get_score_by_title(d, identifier)

\* models/setlist.rs get_setlist_by_id
get_setlist_by_id(d, id) ==
    IF id \in DOMAIN d.ZSETLIST THEN Ok(id) ELSE Err("SetlistNotFound", to_string(id))

\* models/setlist.rs get_setlist_by_name
get_setlist_by_name(d, name) ==
    ByTitleStages(DOMAIN d.ZSETLIST, [i \in DOMAIN d.ZSETLIST |-> d.ZSETLIST[i].ZTITLE], name, "SetlistNotFound")

\* models/setlist.rs resolve_setlist
resolve_setlist(d, identifier) ==
    LET id == parse_i64(identifier)
    IN  IF IsSome(id) /\ InModel(Get(id)) /\ get_setlist_by_id(d, I64Value(Get(id))).ok
        THEN get_setlist_by_id(d, I64Value(Get(id)))
        ELSE get_setlist_by_name(d, identifier)

\* models/library.rs get_library_by_id
get_library_by_id(d, id) ==
    IF id \in DOMAIN d.ZLIBRARY THEN Ok(id) ELSE Err("LibraryNotFound", to_string(id))

\* models/library.rs get_library_by_name
get_library_by_name(d, name) ==
    ByTitleStages(DOMAIN d.ZLIBRARY, [i \in DOMAIN d.ZLIBRARY |-> d.ZLIBRARY[i].ZTITLE], name, "LibraryNotFound")

\* models/library.rs resolve_library
resolve_library(d, identifier) ==
    LET id == parse_i64(identifier)
    IN  IF IsSome(id) /\ InModel(Get(id)) /\ get_library_by_id(d, I64Value(Get(id))).ok
        THEN get_library_by_id(d, I64Value(Get(id)))
        ELSE get_library_by_name(d, identifier)

(***************************************************************************)
(* The key codec on its own: a text is drawn from the bounded set KeyTexts *)
(* and encoded, or a code is drawn from KeyCodes and decoded.      *)
(***************************************************************************)
NoteLetters == Chars({"A","B","C","D","E","F","G","a","b","c","d","e","f","g","H"})
NoteSuffixes == {<<>>, Txt(<<"#">>), <<SharpSign>>, Txt(<<"b">>), Txt(<<"B">>), <<FlatSign>>}
NoteTokens == {<<l>> \o x : l \in NoteLetters, x \in NoteSuffixes} \cup {Txt(<<"C","s","h","a","r","p">>), <<Hex(<<"0","0","E","9">>)>>}
ModeTokens == {Txt(<<"M","a","j","o","r">>), Txt(<<"M","A","J","O","R">>), Txt(<<"m","a","j">>),
               Txt(<<"M","i","n","o","r">>), Txt(<<"m","I","N">>), Txt(<<"m","i","n","o","r">>),
               Txt(<<"D","u","r">>), Txt(<<"M","a","j","o","r","x">>), <<Ch("m"),Hex(<<"0","1","3","0">>),Ch("n")>>}

\* The ways the model lays a note token n and a mode token m out as a text.
Layout(shape, n, m) ==
    CASE shape = 1 -> n \o Txt(<<" ">>) \o m
      [] shape = 2 -> Txt(<<" ">>) \o n \o Txt(<<" ", " ">>) \o m \o Txt(<<" ">>)
      [] shape = 3 -> n \o Txt(<<"\t">>) \o m
      [] shape = 4 -> n
      [] shape = 5 -> n \o Txt(<<" ">>) \o m \o Txt(<<" ">>) \o m
      [] shape = 6 -> n \o m
      [] shape = 7 -> m \o Txt(<<" ">>) \o n
      [] shape = 8 -> n \o Txt(<<"\n">>) \o m
      [] shape = 9 -> Txt(<<"\r", "\n">>) \o n \o <<Hex(<<"0","0","A","0">>)>> \o m \o Txt(<<"\n">>)
      [] OTHER -> <<>>

Shapes == 1..10
KeyTexts == {Layout(sh, n, m) : sh \in Shapes, n \in NoteTokens, m \in ModeTokens}

MaxCode == 1012
KeyCodes == (-2)..MaxCode

NoCommand == [cmd |-> "none"]
NoDb == [none |-> TRUE]
NoFaults == [failAt |-> 0, fsFault |-> "none"]

KeyIdle == [op |-> "none", arg |-> 0, r |-> NoKey]

KeyInit ==
    /\ keyText \in KeyTexts
    /\ keyResult = KeyIdle
    /\ db = NoDb /\ fs = NoDb /\ last = NoCommand /\ minted = 0 /\ env = NoFaults /\ steps = 0

\* encode: MusicalKey::from_string(keyText)
KeyFromString ==
    /\ keyResult.op = "none"
    /\ keyResult' = [op |-> "from_string", arg |-> 0, r |-> from_string(keyText)]
    /\ UNCHANGED <<keyText, db, fs, last, minted, env, steps>>

\* decode: MusicalKey::from_code(code)
KeyFromCode ==
    /\ keyResult.op = "none"
    /\ keyText = <<>>
    /\ \E code \in KeyCodes :
          keyResult' = [op |-> "from_code", arg |-> code, r |-> from_code(code)]
    /\ keyText' = <<>>
    /\ UNCHANGED <<db, fs, last, minted, env, steps>>

KeyNext == KeyFromString \/ KeyFromCode

SpecKey == KeyInit /\ [][KeyNext]_vars

(***************************************************************************)
(* Claims about the key codec.                                             *)
(***************************************************************************)
NaturalLetters == Chars({"A","B","C","D","E","F","G"})
StatedSharpSpellings == {<<l>> : l \in NaturalLetters} \cup {<<l, Ch("#")>> : l \in NaturalLetters}
StatedFlatSpellings == {Txt(<<"D","B">>), Txt(<<"E","B">>), Txt(<<"G","B">>), Txt(<<"A","B">>), Txt(<<"B","B">>)}
StatedModes == {Txt(<<"m","a","j","o","r">>), Txt(<<"m","a","j">>), Txt(<<"m","i","n","o","r">>), Txt(<<"m","i","n">>)}

KeyTokens(s) == split_whitespace(trim(s))

\* A valid key text as the claim states it: a note A-G with an optional sharp,
\* or one of the flat spellings, then a mode name, in any letter case.
StatedValidKeyText(s) ==
    /\ Len(KeyTokens(s)) = 2
    /\ to_uppercase(KeyTokens(s)[1]) \in StatedSharpSpellings \cup StatedFlatSpellings
    /\ to_lowercase(KeyTokens(s)[2]) \in StatedModes

LetterBelow(l) ==
    CASE l = Ch("D") -> Ch("C") [] l = Ch("E") -> Ch("D") [] l = Ch("G") -> Ch("F") [] l = Ch("A") -> Ch("G") [] l = Ch("B") -> Ch("A") [] OTHER -> l

\* The sharp spelling of an upper-cased note token.
SharpSpelled(u) == IF u \in StatedFlatSpellings THEN <<LetterBelow(u[1]), Ch("#")>> ELSE u

CanonicalKey(s) ==
    SharpSpelled(to_uppercase(KeyTokens(s)[1])) \o Txt(<<" ">>) \o
    (IF to_lowercase(KeyTokens(s)[2])[2] = Ch("a") THEN Txt(<<"M","a","j","o","r">>) ELSE Txt(<<"M","i","n","o","r">>))

\* C7: for every valid key text s, decode(encode(s)) displays the canonical
\* form "<sharp-spelled note> <Major|Minor>", and a flat spelling encodes to
\* the code of its sharp spelling.
C7_KeyRoundTrip ==
    (keyResult.op = "from_string" /\ StatedValidKeyText(keyText)) =>
        /\ keyResult.r.ok
        /\ from_code(keyResult.r.code).ok
        /\ display(from_code(keyResult.r.code)) = CanonicalKey(keyText)
        /\ keyResult.r.code =
              from_string(SharpSpelled(to_uppercase(KeyTokens(keyText)[1])) \o Txt(<<" ">>) \o KeyTokens(keyText)[2]).code

\* The note and mode spellings from_string is documented to know.
KnownNoteSpellings ==
    {Txt(<<"C">>), Txt(<<"D">>), Txt(<<"E">>), Txt(<<"F">>), Txt(<<"G">>), Txt(<<"A">>), Txt(<<"B">>)}
    \cup {<<l, x>> : l \in Chars({"C","D","F","G","A"}), x \in {Ch("#"), SharpSign}}
    \cup {<<l, x>> : l \in Chars({"D","E","G","A","B"}), x \in {Ch("B"), FlatSign}}

MalformedKeyText(s) ==
    \/ Len(split_whitespace(s)) # 2
    \/ to_uppercase(split_whitespace(s)[1]) \notin KnownNoteSpellings
    \/ to_lowercase(split_whitespace(s)[2]) \notin StatedModes

\* C8: encode rejects every malformed key text (not exactly two tokens, an
\* unknown note spelling, or an unknown mode) with InvalidKey carrying the
\* text (trimmed), and returns no code for it.
C8_EncodeRejectsMalformed ==
    (keyResult.op = "from_string" /\ MalformedKeyText(keyText)) =>
        /\ ~keyResult.r.ok
        /\ keyResult.r.err = "InvalidKey"
        /\ keyResult.r.text = trim(keyText)
        /\ keyResult.r.code = 0

\* A text of three tokens whose first two are a good note and mode was encoded
\* and rejected.
C8_Witness ==
    /\ keyResult.op = "from_string"
    /\ Len(split_whitespace(keyText)) = 3
    /\ to_uppercase(split_whitespace(keyText)[1]) \in KnownNoteSpellings
    /\ to_lowercase(split_whitespace(keyText)[2]) \in StatedModes
    /\ keyResult.r.err = "InvalidKey"

(***************************************************************************)
(* The rows of the store.                                                  *)
(***************************************************************************)
ItemRow(ent, path, title, uuid, parent) ==
    [Z_ENT |-> ent, Z_OPT |-> 1, ZPATH |-> path, ZTITLE |-> title, ZSORTTITLE |-> to_lowercase(title),
     ZUUID |-> uuid, ZKEY |-> None, ZRATING |-> None, ZDIFFICULTY |-> None, ZSCORE |-> parent,
     ZSTARTPAGE |-> IF ent = BOOKMARK THEN Some(2) ELSE None,
     ZENDPAGE |-> IF ent = BOOKMARK THEN Some(3) ELSE None,
     ZMODIFIED |-> 0]


(***************************************************************************)
(* The resolvers on their own: a store whose three items, setlists and     *)
(* libraries carry titles drawn from TitlePool, and one identifier drawn   *)
(* from Identifiers and resolved.                                          *)
(***************************************************************************)
TitlePool == {Txt(<<"1">>), Txt(<<"x","1">>), Txt(<<"a","b">>), Txt(<<"A","b">>), Txt(<<"a","b","c">>), Txt(<<"b","_">>), Txt(<<"p">>)}
PathPool == {Txt(<<"p">>), Txt(<<"a","b">>)}
Identifiers == {Txt(<<"1">>), Txt(<<"2">>), Txt(<<"3">>), Txt(<<"4">>), Txt(<<"+","1">>), Txt(<<"0","2">>), Txt(<<"-","1">>), I64MinDigits,
                Txt(<<"a","b">>), Txt(<<"A","B">>), Txt(<<"a">>), Txt(<<"b">>), Txt(<<"B","C">>), Txt(<<"p">>), Txt(<<"q">>),
                Txt(<<"_">>), Txt(<<"b","_">>), Txt(<<"%">>), <<>>}

ResolverDb(t1, t2, t3, p1, e3) ==
    [ZITEM |-> <<ItemRow(SCORE, p1, t1, Some(1), None),
                 ItemRow(SCORE, Txt(<<"q","2">>), t2, Some(2), None),
                 ItemRow(e3, Txt(<<"q","3">>), t3, Some(3), IF e3 = BOOKMARK THEN Some(1) ELSE None)>>,
     ZSETLIST |-> <<[ZTITLE |-> t1, ZUUID |-> Some(11)], [ZTITLE |-> t2, ZUUID |-> Some(12)],
                    [ZTITLE |-> t3, ZUUID |-> Some(13)]>>,
     ZLIBRARY |-> <<[ZTITLE |-> t1], [ZTITLE |-> t2], [ZTITLE |-> t3]>>]

ResolveInit ==
    /\ \E t1 \in TitlePool, t2 \in TitlePool, t3 \in TitlePool, p1 \in PathPool, e3 \in {SCORE, BOOKMARK} :
          db = ResolverDb(t1, t2, t3, p1, e3)
    /\ fs = NoDb /\ last = NoCommand /\ minted = 0 /\ env = NoFaults /\ steps = 0
    /\ keyText = <<>> /\ keyResult = KeyIdle

Resolved(cmd, identifier, res) ==
    [cmd |-> cmd, identifier |-> identifier, res |-> res, pre |-> [db |-> db, fs |-> fs]]

ResolveScore ==
    /\ last.cmd = "none"
    /\ \E identifier \in Identifiers : last' = Resolved("resolve_score", identifier, resolve_score(db, identifier))
    /\ UNCHANGED <<keyText, keyResult, db, fs, minted, env, steps>>

ResolveSetlist ==
    /\ last.cmd = "none"
    /\ \E identifier \in Identifiers : last' = Resolved("resolve_setlist", identifier, resolve_setlist(db, identifier))
    /\ UNCHANGED <<keyText, keyResult, db, fs, minted, env, steps>>

ResolveLibrary ==
    /\ last.cmd = "none"
    /\ \E identifier \in Identifiers : last' = Resolved("resolve_library", identifier, resolve_library(db, identifier))
    /\ UNCHANGED <<keyText, keyResult, db, fs, minted, env, steps>>

ResolveNext == ResolveScore \/ ResolveSetlist \/ ResolveLibrary

SpecResolve == ResolveInit /\ [][ResolveNext]_vars

(***************************************************************************)
(* Claims about the resolvers.                                             *)
(***************************************************************************)
IsResolve == last.cmd \in {"resolve_score", "resolve_setlist", "resolve_library"}

\* The entities of the kind the last resolution was for, and their titles and
\* natural keys (the path of a score, the name of a setlist or library).
KindIds ==
    CASE last.cmd = "resolve_score" -> {i \in DOMAIN db.ZITEM : db.ZITEM[i].Z_ENT = SCORE}
      [] last.cmd = "resolve_setlist" -> DOMAIN db.ZSETLIST
      [] OTHER -> DOMAIN db.ZLIBRARY

KindTitle(i) ==
    CASE last.cmd = "resolve_score" -> db.ZITEM[i].ZTITLE
      [] last.cmd = "resolve_setlist" -> db.ZSETLIST[i].ZTITLE
      [] OTHER -> db.ZLIBRARY[i].ZTITLE

KindNaturalKey(i) == IF last.cmd = "resolve_score" THEN db.ZITEM[i].ZPATH ELSE KindTitle(i)

IdMatches == {i \in KindIds : parse_i64(last.identifier) = Some(to_string(i))}
KeyMatches == {i \in KindIds : KindNaturalKey(i) = last.identifier}
ExactMatches == {i \in KindIds : KindTitle(i) = last.identifier}
NoCaseMatches == {i \in KindIds : LOWER(KindTitle(i)) = LOWER(last.identifier)}

\* C9: resolution tries the integer primary key, then the exact natural key,
\* then the title (exactly, then without regard to case), and stops at the
\* first stage that succeeds; an identifier that is the id of an existing
\* entity resolves to that entity whatever the titles of the others are.
C9_ResolverOrder ==
    IsResolve =>
        /\ IdMatches # {} => (last.res.ok /\ last.res.id \in IdMatches)
        /\ (IdMatches = {} /\ KeyMatches # {}) => (last.res.ok /\ last.res.id \in KeyMatches)
        /\ (IdMatches = {} /\ KeyMatches = {} /\ ExactMatches # {}) => (last.res.ok /\ last.res.id \in ExactMatches)
        /\ (IdMatches = {} /\ KeyMatches = {} /\ ExactMatches = {} /\ NoCaseMatches # {}) =>
               (last.res.ok /\ last.res.id \in NoCaseMatches)

\* The identifier "1" is the id of a score and also the title, or a part of the
\* title, of another score, and resolved to score 1.
C9_Witness ==
    /\ last.cmd = "resolve_score"
    /\ last.identifier = Txt(<<"1">>)
    /\ db.ZITEM[2].ZTITLE \in {Txt(<<"1">>), Txt(<<"x","1">>)}
    /\ last.res = Ok(1)

\* t contains x as a run of consecutive characters, letters compared without
\* regard to case.
ContainsText(t, x) ==
    \E k \in 0..(Len(t) - Len(x)) : LOWER(SubSeq(t, k + 1, k + Len(x))) = LOWER(x)

ContainsMatches == {i \in KindIds : ContainsText(KindTitle(i), last.identifier)}

NotFoundOfKind ==
    CASE last.cmd = "resolve_score" -> "ScoreNotFound"
      [] last.cmd = "resolve_setlist" -> "SetlistNotFound"
      [] OTHER -> "LibraryNotFound"

\* C10: an identifier that matches no id, no natural key and no title exactly
\* or case-insensitively resolves to the entity when exactly one title
\* contains it, fails with Ambiguous (carrying the identifier) when two or
\* more titles contain it and with NotFound when none does; resolution writes
\* to neither store.
C10_ResolverAmbiguity ==
    (IsResolve /\ IdMatches = {} /\ KeyMatches = {} /\ ExactMatches = {} /\ NoCaseMatches = {}) =>
        /\ Cardinality(ContainsMatches) = 1 => (last.res.ok /\ last.res.id \in ContainsMatches)
        /\ Cardinality(ContainsMatches) >= 2 => last.res = Err("AmbiguousIdentifier", last.identifier)
        /\ ContainsMatches = {} => last.res = Err(NotFoundOfKind, last.identifier)
        /\ db = last.pre.db /\ fs = last.pre.fs

(***************************************************************************)
(* Statements against the relational store.  Every conn.execute is its own *)
(* unit (the program opens no transaction): a statement either takes       *)
(* effect at once or fails with a Database error, and the `?` after it     *)
(* ends the command.  A context carries the store, the number of           *)
(* statements left before the environment fails one (0: none will fail),   *)
(* and the result so far.                                                  *)
(***************************************************************************)
ErrInt(e, n) == [ok |-> FALSE, id |-> n, err |-> e, arg |-> <<>>]

Begin(d, e) == [db |-> d, failAt |-> e.failAt, res |-> Ok(0)]

execute(c, newdb) ==
    IF ~c.res.ok THEN c
    ELSE IF c.failAt = 1 THEN [c EXCEPT !.res = Err("Database", <<>>), !.failAt = 0]
    ELSE [c EXCEPT !.db = newdb, !.failAt = IF c.failAt > 1 THEN c.failAt - 1 ELSE 0]

Fail(c, r) == IF c.res.ok THEN [c EXCEPT !.res = r] ELSE c

Without(table, pks) == [pk \in DOMAIN table \ pks |-> table[pk]]

\* The columns ZVALUE1 and ZVALUE5, which no INSERT of the program names, are NULL.
MetaRow(ent, value, value2) ==
    [Z_ENT |-> ent, Z_OPT |-> 1, ZVALUE |-> value, ZVALUE2 |-> value2, ZVALUE1 |-> None, ZVALUE5 |-> None]

get_composer_by_name(d, name) ==
    LET ids == {i \in DOMAIN d.ZMETA : d.ZMETA[i].Z_ENT = COMPOSER /\ d.ZMETA[i].ZVALUE = Some(name)}
    IN  IF ids = {} THEN Err("ComposerNotFound", name) ELSE Ok(Min(ids))

\* The context after the call, and the id it returned.
get_or_create_composer(c, name) ==
    LET found == get_composer_by_name(c.db, name)
        max_pk == MaxPk(c.db.ZMETA)
        c1 == execute(c, [c.db EXCEPT !.ZMETA = @ @@ ((max_pk + 1) :> MetaRow(COMPOSER, Some(name), None))])
        c2 == execute(c1, [c1.db EXCEPT !.Z_PRIMARYKEY = [e \in DOMAIN @ |-> IF e = META THEN max_pk + 1 ELSE @[e]]])
    IN  IF ~c.res.ok THEN [c |-> c, id |-> 0]
        ELSE IF found.ok THEN [c |-> c, id |-> found.id]
        ELSE [c |-> c2, id |-> max_pk + 1]

get_or_create_genre(c, name) ==
    LET ids == {i \in DOMAIN c.db.ZMETA : c.db.ZMETA[i].Z_ENT = GENRE /\ c.db.ZMETA[i].ZVALUE2 = Some(name)}
        max_pk == MaxPk(c.db.ZMETA)
        c1 == execute(c, [c.db EXCEPT !.ZMETA = @ @@ ((max_pk + 1) :> MetaRow(GENRE, None, Some(name)))])
    IN  IF ~c.res.ok THEN [c |-> c, id |-> 0]
        ELSE IF ids # {} THEN [c |-> c, id |-> Min(ids)]
        ELSE [c |-> c1, id |-> max_pk + 1]

\* ZMODIFIED is the time of the change: the model counts changes.
mark_modified(c, item_id) ==
    execute(c, [c.db EXCEPT !.ZITEM[item_id].ZMODIFIED = @ + 1, !.ZITEM[item_id].Z_OPT = @ + 1])

(***************************************************************************)
(* The mirror of a score: a file <path>.itm in the sync folder holding a   *)
(* dictionary.  The model keeps the six keys the program writes, one key   *)
(* it does not know ("extra"), and the "bookmarks" array, whose entries    *)
(* are dictionaries of the same shape with an Identifier.                  *)
(***************************************************************************)
BookmarkEntry(identifier, title, extra) ==
    [Identifier |-> identifier, Title |-> title, Composer |-> None, Genre |-> None, Key |-> None,
     Rating |-> None, Difficulty |-> None, Extra |-> extra]

ItmDict(title, extra, bookmarks) ==
    [title |-> title, composer |-> None, genre |-> None, key |-> None, rating |-> None,
     difficulty |-> None, extra |-> extra, bookmarks |-> bookmarks]

EmptyDict == ItmDict(None, None, None)

\* kind: "dict" (a dictionary), "other" (a plist that is not a dictionary),
\* "corrupt" (not a gzipped plist), "missing" (no file).
ItmFile(kind, dict) == [kind |-> kind, dict |-> dict]

MirrorOk(f, changed) == [fs |-> f, ok |-> TRUE, changed |-> changed]
MirrorErr(f) == [fs |-> f, ok |-> FALSE, changed |-> FALSE]

\* File::create truncates the file before the plist is written: a failure of
\* create leaves the file as it was, a failure of the write leaves it broken.
write_itm(f, e, path, dict) ==
    CASE e.fsFault = "create" -> MirrorErr(f)
      [] e.fsFault = "write" -> MirrorErr([f EXCEPT !.itm[path] = ItmFile("corrupt", EmptyDict)])
      [] OTHER -> MirrorOk([f EXCEPT !.itm[path] = ItmFile("dict", dict)], TRUE)

ItmUpdate(title, composer, genre, key, rating, difficulty) ==
    [title |-> title, composer |-> composer, genre |-> genre, key |-> key, rating |-> rating,
     difficulty |-> difficulty]

is_empty(update) ==
    /\ update.title = None /\ update.composer = None /\ update.genre = None
    /\ update.key = None /\ update.rating = None /\ update.difficulty = None

Insert(old, new) == IF IsSome(new) THEN new ELSE old

\* A patch that builds the dictionary anew from the keys the tool knows.
update_itm_rebuilt(f, e, pdf_path, update) ==
    IF is_empty(update) THEN MirrorOk(f, FALSE)
    ELSE IF e.fsFault = "nofolder" THEN MirrorErr(f)
    ELSE IF f.itm[pdf_path].kind = "missing" THEN MirrorOk(f, FALSE)
    ELSE IF f.itm[pdf_path].kind # "dict" THEN MirrorErr(f)
    ELSE write_itm(f, e, pdf_path,
             [f.itm[pdf_path].dict EXCEPT !.title = Insert(@, update.title),
                                          !.composer = Insert(@, update.composer),
                                          !.genre = Insert(@, update.genre),
                                          !.key = Insert(@, update.key),
                                          !.rating = Insert(@, update.rating),
                                          !.difficulty = Insert(@, update.difficulty),
                                          !.extra = None])

update_itm(f, e, pdf_path, update) ==
    IF is_empty(update) THEN MirrorOk(f, FALSE)
    ELSE IF e.fsFault = "nofolder" THEN MirrorErr(f)
    ELSE IF f.itm[pdf_path].kind = "missing" THEN MirrorOk(f, FALSE)
    ELSE IF f.itm[pdf_path].kind = "corrupt" THEN MirrorErr(f)
    ELSE IF f.itm[pdf_path].kind # "dict" THEN MirrorErr(f)
    ELSE LET dict == f.itm[pdf_path].dict
         IN  write_itm(f, e, pdf_path,
                 [dict EXCEPT !.title = Insert(@, update.title),
                              !.composer = Insert(@, update.composer),
                              !.genre = Insert(@, update.genre),
                              !.key = Insert(@, update.key),
                              !.rating = Insert(@, update.rating),
                              !.difficulty = Insert(@, update.difficulty)])

ItmBookmarkUpdate(title, composer, genre, key, rating, difficulty) ==
    ItmUpdate(title, composer, genre, key, rating, difficulty)

\* The index of the first entry of the array whose Identifier is the token, or 0.
FirstMatch(bookmarks, uuid) ==
    LET hits == {k \in 1..Len(bookmarks) : bookmarks[k].Identifier = Some(uuid)}
    IN  IF hits = {} THEN 0 ELSE Min(hits)

update_bookmark_in_itm(f, e, pdf_path, bookmark_uuid, update) ==
    IF is_empty(update) THEN MirrorOk(f, FALSE)
    ELSE IF bookmark_uuid = None THEN MirrorOk(f, FALSE)
    ELSE IF e.fsFault = "nofolder" THEN MirrorErr(f)
    ELSE IF f.itm[pdf_path].kind = "missing" THEN MirrorOk(f, FALSE)
    ELSE IF f.itm[pdf_path].kind = "corrupt" THEN MirrorErr(f)
    ELSE IF f.itm[pdf_path].kind # "dict" THEN MirrorErr(f)
    ELSE IF f.itm[pdf_path].dict.bookmarks = None THEN MirrorOk(f, FALSE)
    ELSE LET dict == f.itm[pdf_path].dict
             bookmarks == Get(dict.bookmarks)
             k == FirstMatch(bookmarks, Get(bookmark_uuid))
         IN  IF k = 0 THEN MirrorOk(f, FALSE)
             ELSE write_itm(f, e, pdf_path,
                      [dict EXCEPT !.bookmarks = Some(
                          [bookmarks EXCEPT ![k] =
                              [@ EXCEPT !.Title = Insert(@, update.title),
                                        !.Composer = Insert(@, update.composer),
                                        !.Genre = Insert(@, update.genre),
                                        !.Key = Insert(@, update.key),
                                        !.Rating = Insert(@, update.rating),
                                        !.Difficulty = Insert(@, update.difficulty)]])])

RECURSIVE Retain(_, _)
Retain(bookmarks, uuid) ==
    IF bookmarks = <<>> THEN <<>>
    ELSE IF Head(bookmarks).Identifier = Some(uuid) THEN Retain(Tail(bookmarks), uuid)
    ELSE <<Head(bookmarks)>> \o Retain(Tail(bookmarks), uuid)

delete_bookmark_from_itm(f, e, pdf_path, bookmark_uuid) ==
    IF bookmark_uuid = None THEN MirrorOk(f, FALSE)
    ELSE IF e.fsFault = "nofolder" THEN MirrorErr(f)
    ELSE IF f.itm[pdf_path].kind = "missing" THEN MirrorOk(f, FALSE)
    ELSE IF f.itm[pdf_path].kind = "corrupt" THEN MirrorErr(f)
    ELSE IF f.itm[pdf_path].kind # "dict" THEN MirrorErr(f)
    ELSE IF f.itm[pdf_path].dict.bookmarks = None THEN MirrorOk(f, FALSE)
    ELSE LET dict == f.itm[pdf_path].dict
             kept == Retain(Get(dict.bookmarks), Get(bookmark_uuid))
         IN  IF Len(kept) = Len(Get(dict.bookmarks)) THEN MirrorOk(f, FALSE)
             ELSE write_itm(f, e, pdf_path, [dict EXCEPT !.bookmarks = Some(kept)])

(***************************************************************************)
(* scores edit and bookmarks edit.  The two handlers run the same sequence *)
(* of steps on the resolved item: title, key, rating, difficulty,          *)
(* composer, genre, then the modification mark.  Each step takes the       *)
(* context the steps before it left.                                       *)
(***************************************************************************)
CodeOf(key_obj) == IF key_obj.ok THEN Some(key_obj.code) ELSE None

KeyCodeOf(key) == IF IsSome(key) THEN CodeOf(from_string(Get(key))) ELSE None

\* The title update without the guard on the preview flag.
edit_title_applied(c, id, a) ==
    IF IsSome(a.title)
    THEN execute(c, [c.db EXCEPT !.ZITEM[id].ZTITLE = Get(a.title),
                                 !.ZITEM[id].ZSORTTITLE = to_lowercase(Get(a.title))])
    ELSE c

edit_title(c, id, a) ==
    IF IsSome(a.title) /\ ~a.dry_run
    THEN execute(c, [c.db EXCEPT !.ZITEM[id].ZTITLE = Get(a.title),
                                 !.ZITEM[id].ZSORTTITLE = to_lowercase(Get(a.title))])
    ELSE c

SetKey(c, id, key_obj, dry_run) ==
    IF ~key_obj.ok THEN Fail(c, Err("InvalidKey", key_obj.text))
    ELSE IF dry_run THEN c
    ELSE execute(c, [c.db EXCEPT !.ZITEM[id].ZKEY = Some(key_obj.code)])

edit_key(c, id, a) ==
    IF ~IsSome(a.key) THEN c ELSE SetKey(c, id, from_string(Get(a.key)), a.dry_run)

edit_rating(c, id, a) ==
    IF ~IsSome(a.rating) THEN c
    ELSE IF Get(a.rating) < 1 \/ Get(a.rating) > 6 THEN Fail(c, ErrInt("InvalidRating", Get(a.rating)))
    ELSE IF a.dry_run THEN c
    ELSE execute(c, [c.db EXCEPT !.ZITEM[id].ZRATING = a.rating])

edit_difficulty(c, id, a) ==
    IF ~IsSome(a.difficulty) THEN c
    ELSE IF Get(a.difficulty) < 1 \/ Get(a.difficulty) > 5
         THEN Fail(c, ErrInt("InvalidDifficulty", Get(a.difficulty)))
    ELSE IF a.dry_run THEN c
    ELSE execute(c, [c.db EXCEPT !.ZITEM[id].ZDIFFICULTY = a.difficulty])

DeleteComposerLinks(c, id) == execute(c, [c.db EXCEPT !.Z_4COMPOSERS = {l \in @ : l[1] # id}])
InsertComposerLink(c, id, composer_id) == execute(c, [c.db EXCEPT !.Z_4COMPOSERS = @ \cup {<<id, composer_id>>}])
SetComposer(g, id) == InsertComposerLink(DeleteComposerLinks(g.c, id), id, g.id)

edit_composer(c, id, a) ==
    IF ~IsSome(a.composer) \/ a.dry_run THEN c
    ELSE SetComposer(get_or_create_composer(c, Get(a.composer)), id)

DeleteGenreLinks(c, id) == execute(c, [c.db EXCEPT !.Z_4GENRES = {l \in @ : l[1] # id}])
InsertGenreLink(c, id, genre_id) == execute(c, [c.db EXCEPT !.Z_4GENRES = @ \cup {<<id, genre_id>>}])
SetGenre(g, id) == InsertGenreLink(DeleteGenreLinks(g.c, id), id, g.id)

edit_genre(c, id, a) ==
    IF ~IsSome(a.genre) \/ a.dry_run THEN c
    ELSE SetGenre(get_or_create_genre(c, Get(a.genre)), id)

MarkUnlessDry(c, id, dry_run) == IF dry_run THEN c ELSE mark_modified(c, id)

edit_fields(c0, id, a) ==
    IF ~c0.res.ok THEN c0
    ELSE MarkUnlessDry(
             edit_genre(edit_composer(edit_difficulty(edit_rating(edit_key(edit_title(c0, id, a), id, a),
                                                                  id, a), id, a), id, a), id, a),
             id, a.dry_run)

\* What a dry run prints: the fields it would change, in order, up to the
\* first validation error.
Printed(a, keyBad, ratingBad, difficultyBad) ==
    (IF IsSome(a.title) THEN <<"Title">> ELSE <<>>)
    \o (IF IsSome(a.key) /\ ~keyBad THEN <<"Key">> ELSE <<>>)
    \o (IF IsSome(a.rating) /\ ~keyBad /\ ~ratingBad THEN <<"Rating">> ELSE <<>>)
    \o (IF IsSome(a.difficulty) /\ ~keyBad /\ ~ratingBad /\ ~difficultyBad THEN <<"Difficulty">> ELSE <<>>)
    \o (IF IsSome(a.composer) /\ ~keyBad /\ ~ratingBad /\ ~difficultyBad THEN <<"Composer">> ELSE <<>>)
    \o (IF IsSome(a.genre) /\ ~keyBad /\ ~ratingBad /\ ~difficultyBad THEN <<"Genre">> ELSE <<>>)

WouldChange(a) ==
    Printed(a,
            IsSome(a.key) /\ ~from_string(Get(a.key)).ok,
            IsSome(a.rating) /\ (Get(a.rating) < 1 \/ Get(a.rating) > 6),
            IsSome(a.difficulty) /\ (Get(a.difficulty) < 1 \/ Get(a.difficulty) > 5))

\* The outcome of a command: the stores after it, the statements left before
\* the planned fault, the result returned to the operator, what became of the
\* mirror ("none": not attempted, "updated", "unchanged", "error": a warning
\* was printed), the tokens minted, and the lines a preview printed.
Outcome(c, f, mirror, printed) ==
    [db |-> c.db, fs |-> f, failAt |-> c.failAt, res |-> c.res, mirror |-> mirror, printed |-> printed,
     minted |-> 0]

MirrorLabel(m) == IF ~m.ok THEN "error" ELSE IF m.changed THEN "updated" ELSE "unchanged"

\* The end of a handler that returned the error of the mirror with `?`.
FinishPropagating(c, f, m) ==
    IF ~c.res.ok THEN Outcome(c, f, "none", <<>>)
    ELSE IF ~m.ok THEN Outcome(Fail(c, Err("Other", <<>>)), m.fs, "error", <<>>)
    ELSE Outcome(c, m.fs, MirrorLabel(m), <<>>)

\* The end of a handler whose store part left the context c and whose mirror
\* part, run only after the store part succeeded, gives m.
Finish(c, f, m) ==
    IF ~c.res.ok THEN Outcome(c, f, "none", <<>>) ELSE Outcome(c, m.fs, MirrorLabel(m), <<>>)

EditDone(c, f, a, m) ==
    IF a.dry_run THEN Outcome(c, f, "none", WouldChange(a)) ELSE Finish(c, f, m)

ItmUpdateOf(a) == ItmUpdate(a.title, a.composer, a.genre, KeyCodeOf(a.key), a.rating, a.difficulty)

ScoresEditResolved(d, f, e, a, score) ==
    IF ~score.ok THEN Outcome(Fail(Begin(d, e), score), f, "none", <<>>)
    ELSE EditDone(edit_fields([db |-> d, failAt |-> e.failAt, res |-> score], score.id, a), f, a,
                  update_itm(f, e, d.ZITEM[score.id].ZPATH, ItmUpdateOf(a)))

scores_edit(d, f, e, a) == ScoresEditResolved(d, f, e, a, resolve_score(d, a.identifier))

get_bookmark_by_id(d, id) ==
    IF id \in DOMAIN d.ZITEM /\ d.ZITEM[id].Z_ENT = BOOKMARK THEN Ok(id) ELSE Err("Database", <<>>)

BookmarksEditResolved(d, f, e, a, bookmark) ==
    IF ~bookmark.ok THEN Outcome(Fail(Begin(d, e), bookmark), f, "none", <<>>)
    ELSE EditDone(edit_fields([db |-> d, failAt |-> e.failAt, res |-> bookmark], bookmark.id, a), f, a,
                  update_bookmark_in_itm(f, e, d.ZITEM[bookmark.id].ZPATH, d.ZITEM[bookmark.id].ZUUID,
                                         ItmUpdateOf(a)))

bookmarks_edit(d, f, e, a) == BookmarksEditResolved(d, f, e, a, get_bookmark_by_id(d, a.id))

DeleteItem(c, id) == execute(c, [c.db EXCEPT !.ZITEM = Without(@, {id})])

bookmarks_delete(d, f, e, a) ==
    Finish(DeleteGenreLinks(DeleteComposerLinks(
               DeleteItem([db |-> d, failAt |-> e.failAt, res |-> get_bookmark_by_id(d, a.id)], a.id), a.id), a.id),
           f, delete_bookmark_from_itm(f, e, d.ZITEM[a.id].ZPATH, d.ZITEM[a.id].ZUUID))

(***************************************************************************)
(* The mirror of a setlist: a file <name>.set in the sync folder, holding  *)
(* a dictionary with "title", "items", "menuIndex" and keys the program    *)
(* does not know ("extra").  File names are the percent-encoded setlist    *)
(* names; the encoding is one-to-one, so the model keys the files by name. *)
(* Identity tokens are numbers; 0 stands for the empty string.             *)
(***************************************************************************)
SetlistItem(file_path, title, identifier, is_bookmark, first_page, last_page) ==
    [FilePath |-> file_path, Title |-> title, Identifier |-> Some(identifier), Bookmark |-> is_bookmark,
     FirstPage |-> IF is_bookmark THEN first_page ELSE None,
     LastPage |-> IF is_bookmark THEN last_page ELSE None,
     Extra |-> None]

SetDict(title, items, menuIndex, extra) ==
    [title |-> title, items |-> items, menuIndex |-> menuIndex, extra |-> extra]

EmptySetDict == SetDict(None, None, None, None)

SetFile(kind, dict) == [kind |-> kind, dict |-> dict]

write_setlist_file(f, e, name, dict) ==
    CASE e.fsFault = "create" -> MirrorErr(f)
      [] e.fsFault = "write" -> MirrorErr([f EXCEPT !.set[name] = SetFile("corrupt", EmptySetDict)])
      [] OTHER -> MirrorOk([f EXCEPT !.set[name] = SetFile("dict", dict)], TRUE)

\* read_setlist_file fails on a file that is not a gzipped plist dictionary.
Readable(file) == file.kind = "dict"

create_setlist_file(f, e, name) ==
    IF e.fsFault = "nofolder" THEN MirrorErr(f)
    ELSE IF f.set[name].kind # "missing" THEN MirrorOk(f, FALSE)
    ELSE write_setlist_file(f, e, name, SetDict(Some(name), Some(<<>>), Some(0), None))

\* Every folder file with an entry equal to the old name is rewritten (also
\* when the new name is the old one); a failure of that write is ignored.
update_folders_for_renamed_setlist(f, e, old_name, new_name) ==
    LET renamed == [k \in DOMAIN f.fld.setlists |->
                        IF f.fld.setlists[k] = old_name THEN new_name ELSE f.fld.setlists[k]]
        modified == \E k \in DOMAIN f.fld.setlists : f.fld.setlists[k] = old_name
    IN  IF f.fld.kind # "dict" \/ ~modified THEN f
        ELSE IF e.fsFault = "create" THEN f
        ELSE IF e.fsFault = "write" THEN [f EXCEPT !.fld = [kind |-> "corrupt", setlists |-> <<>>]]
        ELSE [f EXCEPT !.fld.setlists = renamed]

rename_setlist_file(f, e, old_name, new_name) ==
    IF e.fsFault = "nofolder" THEN MirrorErr(f)
    ELSE IF f.set[old_name].kind = "missing" THEN MirrorOk(f, FALSE)
    ELSE IF ~Readable(f.set[old_name]) THEN MirrorErr(f)
    ELSE LET w == write_setlist_file(f, e, new_name, [f.set[old_name].dict EXCEPT !.title = Some(new_name)])
             removed == [w.fs EXCEPT !.set[old_name] = SetFile("missing", EmptySetDict)]
         IN  IF ~w.ok THEN w
             ELSE IF e.fsFault = "remove" THEN MirrorErr(w.fs)
             ELSE MirrorOk(update_folders_for_renamed_setlist(removed, e, old_name, new_name), TRUE)

delete_setlist_file(f, e, name) ==
    IF e.fsFault = "nofolder" THEN MirrorErr(f)
    ELSE IF f.set[name].kind = "missing" THEN MirrorOk(f, FALSE)
    ELSE IF e.fsFault = "remove" THEN MirrorErr(f)
    ELSE MirrorOk([f EXCEPT !.set[name] = SetFile("missing", EmptySetDict)], TRUE)

add_item_to_setlist_file(f, e, setlist_name, item) ==
    LET created == IF f.set[setlist_name].kind = "missing" THEN create_setlist_file(f, e, setlist_name)
                   ELSE MirrorOk(f, FALSE)
        f1 == created.fs
        dict == f1.set[setlist_name].dict
        items == IF IsSome(dict.items) THEN Get(dict.items) ELSE <<>>
    IN  IF e.fsFault = "nofolder" THEN MirrorErr(f)
        ELSE IF ~created.ok THEN created
        ELSE IF ~Readable(f1.set[setlist_name]) THEN MirrorErr(f1)
        ELSE IF \E k \in 1..Len(items) : items[k].Identifier = item.Identifier THEN MirrorOk(f1, FALSE)
        ELSE write_setlist_file(f1, e, setlist_name, [dict EXCEPT !.items = Some(Append(items, item))])

remove_item_from_setlist_file(f, e, setlist_name, identifier) ==
    IF e.fsFault = "nofolder" THEN MirrorErr(f)
    ELSE IF f.set[setlist_name].kind = "missing" THEN MirrorOk(f, FALSE)
    ELSE IF ~Readable(f.set[setlist_name]) THEN MirrorErr(f)
    ELSE IF f.set[setlist_name].dict.items = None THEN MirrorOk(f, FALSE)
    ELSE LET dict == f.set[setlist_name].dict
             kept == Retain(Get(dict.items), identifier)
         IN  IF Len(kept) = Len(Get(dict.items)) THEN MirrorOk(f, FALSE)
             ELSE write_setlist_file(f, e, setlist_name, [dict EXCEPT !.items = Some(kept)])

\* The rebuild without the check that the file exists.
reorder_setlist_file_creating(f, e, setlist_name, items) ==
    IF e.fsFault = "nofolder" THEN MirrorErr(f)
    ELSE IF f.set[setlist_name].kind \notin {"missing", "dict"} THEN MirrorErr(f)
    ELSE write_setlist_file(f, e, setlist_name, [f.set[setlist_name].dict EXCEPT !.items = Some(items)])

reorder_setlist_file(f, e, setlist_name, items) ==
    IF e.fsFault = "nofolder" THEN MirrorErr(f)
    ELSE IF f.set[setlist_name].kind = "missing" THEN MirrorOk(f, FALSE)
    ELSE IF ~Readable(f.set[setlist_name]) THEN MirrorErr(f)
    ELSE write_setlist_file(f, e, setlist_name, [f.set[setlist_name].dict EXCEPT !.items = Some(items)])

(***************************************************************************)
(* Setlists and their memberships in the relational store.                 *)
(***************************************************************************)
\* The n-th identity token minted by uuid::Uuid::new_v4: distinct from every
\* token of the initial store and from every other minted token.
new_v4(n) == 100 + n

CylonRow(setlist_id, item_id, z4_item, uuid) ==
    [ZSETLIST |-> setlist_id, ZITEM |-> item_id, Z4_ITEM |-> z4_item, ZUUID |-> uuid]

RECURSIVE Ascending(_)
Ascending(S) == IF S = {} THEN <<>> ELSE <<Min(S)>> \o Ascending(S \ {Min(S)})

\* The link rows of a setlist, ORDER BY Z_PK.
MemberPks(d, setlist_id) == Ascending({pk \in DOMAIN d.ZCYLON : d.ZCYLON[pk].ZSETLIST = setlist_id})

Members(d, setlist_id) ==
    LET pks == MemberPks(d, setlist_id) IN [k \in 1..Len(pks) |-> d.ZCYLON[pks[k]].ZITEM]

RemoveAt(seq, k) == SubSeq(seq, 1, k - 1) \o SubSeq(seq, k + 1, Len(seq))
InsertAt(seq, k, x) == SubSeq(seq, 1, k) \o <<x>> \o SubSeq(seq, k + 1, Len(seq))

\* SELECT ZUUID FROM ZCYLON WHERE ZSETLIST = ? AND ZITEM = ?, read as a String
\* with unwrap_or_default: the empty string when there is no row or no token.
LinkIdentifier(d, setlist_id, item_id) ==
    LET pks == {pk \in DOMAIN d.ZCYLON : d.ZCYLON[pk].ZSETLIST = setlist_id /\ d.ZCYLON[pk].ZITEM = item_id}
    IN  IF pks = {} \/ d.ZCYLON[Min(pks)].ZUUID = None THEN 0 ELSE Get(d.ZCYLON[Min(pks)].ZUUID)

create_setlist(c, name, uuid) ==
    LET max_pk == MaxPk(c.db.ZSETLIST)
        c1 == execute(c, [c.db EXCEPT !.ZSETLIST = @ @@ ((max_pk + 1) :> [ZTITLE |-> name, ZUUID |-> Some(uuid)])])
        c2 == execute(c1, [c1.db EXCEPT !.Z_PRIMARYKEY = [e \in DOMAIN @ |-> IF e = SETLIST THEN max_pk + 1 ELSE @[e]]])
    IN  IF c2.res.ok THEN [c2 EXCEPT !.res = get_setlist_by_id(c2.db, max_pk + 1)] ELSE c2

rename_setlist(c, setlist_id, new_name) ==
    LET c1 == execute(c, [c.db EXCEPT !.ZSETLIST[setlist_id].ZTITLE = new_name])
    IN  IF c1.res.ok /\ setlist_id \notin DOMAIN c.db.ZSETLIST
        THEN Fail(c1, ErrInt("SetlistNotFound", setlist_id)) ELSE c1

delete_setlist(c, setlist_id) ==
    LET c1 == execute(c, [c.db EXCEPT !.ZCYLON = Without(@, {pk \in DOMAIN @ : @[pk].ZSETLIST = setlist_id})])
        c2 == execute(c1, [c1.db EXCEPT !.ZSETLIST = Without(@, {setlist_id})])
    IN  IF c2.res.ok /\ setlist_id \notin DOMAIN c.db.ZSETLIST
        THEN Fail(c2, ErrInt("SetlistNotFound", setlist_id)) ELSE c2

\* The insert of a membership row.  add_score_to_setlist inserts it with the
\* tag SCORE; add_item_to_setlist, which the handlers call for bookmarks,
\* takes the tag as a parameter.
InsertMembership(c, setlist_id, item_id, item_ent, fresh) ==
    LET d == c.db
        exists == \E pk \in DOMAIN d.ZCYLON : d.ZCYLON[pk].ZSETLIST = setlist_id /\ d.ZCYLON[pk].ZITEM = item_id
        max_pk == MaxPk(d.ZCYLON)
        tokened == {pk \in DOMAIN d.ZCYLON : d.ZCYLON[pk].ZITEM = item_id /\ d.ZCYLON[pk].ZUUID # None}
        uuid == IF tokened = {} THEN fresh ELSE Get(d.ZCYLON[Min(tokened)].ZUUID)
    IN  IF exists THEN c
        ELSE execute(c, [d EXCEPT !.ZCYLON = @ @@ ((max_pk + 1) :> CylonRow(setlist_id, item_id, item_ent, Some(uuid)))])

\* An insert that mints a token whether or not the score has one.
add_score_minting(c, setlist_id, score_id, fresh) ==
    IF \E pk \in DOMAIN c.db.ZCYLON : c.db.ZCYLON[pk].ZSETLIST = setlist_id /\ c.db.ZCYLON[pk].ZITEM = score_id
    THEN c
    ELSE execute(c, [c.db EXCEPT !.ZCYLON = @ @@ ((MaxPk(c.db.ZCYLON) + 1) :>
                                     CylonRow(setlist_id, score_id, SCORE, Some(fresh)))])

add_score_to_setlist(c, setlist_id, score_id, fresh) == InsertMembership(c, setlist_id, score_id, SCORE, fresh)

add_item_to_setlist(c, setlist_id, item_id, item_ent, fresh) ==
    InsertMembership(c, setlist_id, item_id, item_ent, fresh)

remove_score_from_setlist(c, setlist_id, score_id) ==
    execute(c, [c.db EXCEPT !.ZCYLON = Without(@, {pk \in DOMAIN @ : @[pk].ZSETLIST = setlist_id /\ @[pk].ZITEM = score_id})])

RECURSIVE ReInsert(_, _, _, _, _, _)
ReInsert(c, setlist_id, new_order, i, max_base, mint) ==
    IF i > Len(new_order) THEN c
    ELSE ReInsert(
             execute(c, [c.db EXCEPT !.ZCYLON = @ @@ ((max_base + i) :>
                             CylonRow(setlist_id, new_order[i], new_order[i], Some(new_v4(mint + i))))]),
             setlist_id, new_order, i + 1, max_base, mint)

\* new_position is a usize: new_position - 1 at position 0 panics in a build
\* with overflow checks and wraps to the largest usize in one without.
reorder_score_in_setlist(c, setlist_id, score_id, new_position, wraps, mint) ==
    LET members == Members(c.db, setlist_id)
        hits == {k \in 1..Len(members) : members[k] = score_id}
        max_base == MaxPk(c.db.ZCYLON)
        removed == RemoveAt(members, Min(hits))
        insert_pos == IF new_position = 0 THEN Len(removed)
                      ELSE IF new_position - 1 < Len(removed) THEN new_position - 1 ELSE Len(removed)
        new_order == InsertAt(removed, insert_pos, score_id)
        c1 == execute(c, [c.db EXCEPT !.ZCYLON = Without(@, {pk \in DOMAIN @ : @[pk].ZSETLIST = setlist_id})])
    IN  IF ~c.res.ok THEN c
        ELSE IF hits = {} THEN Fail(c, ErrInt("Other", score_id))
        ELSE IF new_position = 0 /\ ~wraps THEN Fail(c, ErrInt("Panic", 0))
        ELSE ReInsert(c1, setlist_id, new_order, 1, max_base, mint)

(***************************************************************************)
(* The setlist commands.                                                   *)
(***************************************************************************)
\* Bookmarks are resolved like scores, among the rows tagged BOOKMARK: by id,
\* then by title.
BookmarkRows(d) == {i \in DOMAIN d.ZITEM : d.ZITEM[i].Z_ENT = BOOKMARK}

ResolveBookmarkParsed(d, identifier, id) ==
    IF IsSome(id) /\ InModel(Get(id)) /\ I64Value(Get(id)) \in BookmarkRows(d) THEN Ok(I64Value(Get(id)))
    ELSE ByTitleStages(BookmarkRows(d), [i \in BookmarkRows(d) |-> d.ZITEM[i].ZTITLE], identifier, "ScoreNotFound")

resolve_bookmark(d, identifier) == ResolveBookmarkParsed(d, identifier, parse_i64(identifier))

\* "Try as score first, then as bookmark".
FirstOk(sc, bm, identifier) == IF sc.ok THEN sc ELSE IF bm.ok THEN bm ELSE Err("Other", identifier)

ResolveItem(d, identifier) == FirstOk(resolve_score(d, identifier), resolve_bookmark(d, identifier), identifier)

Minted(o, n) == [o EXCEPT !.minted = n]

With(d, e, res) == [db |-> d, failAt |-> e.failAt, res |-> res]

setlists_create(d, f, e, a, mint) ==
    Minted(Finish(create_setlist(Begin(d, e), a.name, new_v4(mint + 1)), f, create_setlist_file(f, e, a.name)), 1)

SetlistsRenameResolved(d, f, e, a, setlist) ==
    IF ~setlist.ok THEN Outcome(With(d, e, setlist), f, "none", <<>>)
    ELSE Finish(rename_setlist(With(d, e, setlist), setlist.id, a.new_name), f,
                rename_setlist_file(f, e, d.ZSETLIST[setlist.id].ZTITLE, a.new_name))

setlists_rename(d, f, e, a) == SetlistsRenameResolved(d, f, e, a, resolve_setlist(d, a.identifier))

SetlistsDeleteResolved(d, f, e, a, setlist) ==
    IF ~setlist.ok THEN Outcome(With(d, e, setlist), f, "none", <<>>)
    ELSE Finish(delete_setlist(With(d, e, setlist), setlist.id), f,
                delete_setlist_file(f, e, d.ZSETLIST[setlist.id].ZTITLE))

setlists_delete(d, f, e, a) == SetlistsDeleteResolved(d, f, e, a, resolve_setlist(d, a.identifier))

\* The entry of the mirror for the item just linked, with the token of its
\* link row.
AddedEntry(d1, row, setlist_id, item_id, is_bookmark) ==
    SetlistItem(row.ZPATH, row.ZTITLE, LinkIdentifier(d1, setlist_id, item_id), is_bookmark,
                row.ZSTARTPAGE, row.ZENDPAGE)

AddScoreLinked(d, f, e, sl, item, is_bookmark, c) ==
    Minted(Finish(c, f, add_item_to_setlist_file(f, e, d.ZSETLIST[sl.id].ZTITLE,
                            AddedEntry(c.db, d.ZITEM[item.id], sl.id, item.id, is_bookmark))), 1)

SetlistsAddScoreResolved(d, f, e, a, sl, sc, bm, mint) ==
    IF ~sl.ok THEN Outcome(With(d, e, sl), f, "none", <<>>)
    ELSE IF sc.ok THEN AddScoreLinked(d, f, e, sl, sc, FALSE,
                           add_score_to_setlist(With(d, e, sc), sl.id, sc.id, new_v4(mint + 1)))
    ELSE IF bm.ok THEN AddScoreLinked(d, f, e, sl, bm, TRUE,
                           add_item_to_setlist(With(d, e, bm), sl.id, bm.id, BOOKMARK, new_v4(mint + 1)))
    ELSE Outcome(With(d, e, Err("Other", a.score)), f, "none", <<>>)

setlists_add_score(d, f, e, a, mint) ==
    SetlistsAddScoreResolved(d, f, e, a, resolve_setlist(d, a.setlist), resolve_score(d, a.score),
                             resolve_bookmark(d, a.score), mint)

SetlistsRemoveScoreResolved(d, f, e, a, sl, item) ==
    IF ~sl.ok THEN Outcome(With(d, e, sl), f, "none", <<>>)
    ELSE IF ~item.ok THEN Outcome(With(d, e, item), f, "none", <<>>)
    ELSE Finish(remove_score_from_setlist(With(d, e, item), sl.id, item.id), f,
                remove_item_from_setlist_file(f, e, d.ZSETLIST[sl.id].ZTITLE, LinkIdentifier(d, sl.id, item.id)))

setlists_remove_score(d, f, e, a) ==
    SetlistsRemoveScoreResolved(d, f, e, a, resolve_setlist(d, a.setlist), ResolveItem(d, a.score))

\* The items of the rebuilt mirror: the link rows of the setlist joined with
\* their items, ORDER BY Z_PK; an entry is a bookmark when Z4_ITEM is BOOKMARK.
\* The entry with the identity token read from the item row.
RebuiltItemOfItem(link, row) ==
    SetlistItem(row.ZPATH, row.ZTITLE, Get(row.ZUUID), link.Z4_ITEM = BOOKMARK, row.ZSTARTPAGE, row.ZENDPAGE)

RebuiltItem(link, row) ==
    SetlistItem(row.ZPATH, row.ZTITLE, Get(link.ZUUID), link.Z4_ITEM = BOOKMARK, row.ZSTARTPAGE, row.ZENDPAGE)

JoinedPks(d, setlist_id) ==
    Ascending({pk \in DOMAIN d.ZCYLON : d.ZCYLON[pk].ZSETLIST = setlist_id /\ d.ZCYLON[pk].ZITEM \in DOMAIN d.ZITEM})

RebuiltItems(d, setlist_id) ==
    [k \in 1..Len(JoinedPks(d, setlist_id)) |->
        RebuiltItem(d.ZCYLON[JoinedPks(d, setlist_id)[k]], d.ZITEM[d.ZCYLON[JoinedPks(d, setlist_id)[k]].ZITEM])]

ReorderDone(d, f, e, sl, c) ==
    Finish(c, f, reorder_setlist_file(f, e, d.ZSETLIST[sl.id].ZTITLE, RebuiltItems(c.db, sl.id)))

SetlistsReorderResolved(d, f, e, a, sl, item, wraps, mint) ==
    IF ~sl.ok THEN Outcome(With(d, e, sl), f, "none", <<>>)
    ELSE IF ~item.ok THEN Outcome(With(d, e, item), f, "none", <<>>)
    ELSE Minted(ReorderDone(d, f, e, sl,
                    reorder_score_in_setlist(With(d, e, item), sl.id, item.id, a.position, wraps, mint)),
                Len(Members(d, sl.id)))

setlists_reorder(d, f, e, a, wraps, mint) ==
    SetlistsReorderResolved(d, f, e, a, resolve_setlist(d, a.setlist), ResolveItem(d, a.score), wraps, mint)

(***************************************************************************)
(* import csv.  A record carries the id column as text and the other       *)
(* columns as options: None is a missing column, an empty field or, for    *)
(* rating and difficulty, a field that is not a number.  Fields that do    *)
(* not validate are skipped; the mirror files are not touched.             *)
(***************************************************************************)
ImportKey(c, id, key, dry_run) ==
    IF key.ok /\ ~dry_run THEN execute(c, [c.db EXCEPT !.ZITEM[id].ZKEY = Some(key.code)]) ELSE c

import_key(c, id, record, dry_run) ==
    IF IsSome(record.key) THEN ImportKey(c, id, from_string(Get(record.key)), dry_run) ELSE c

import_rating(c, id, record, dry_run) ==
    IF IsSome(record.rating) /\ Get(record.rating) >= 1 /\ Get(record.rating) <= 6 /\ ~dry_run
    THEN execute(c, [c.db EXCEPT !.ZITEM[id].ZRATING = record.rating])
    ELSE c

import_difficulty(c, id, record, dry_run) ==
    IF IsSome(record.difficulty) /\ Get(record.difficulty) >= 1 /\ Get(record.difficulty) <= 5 /\ ~dry_run
    THEN execute(c, [c.db EXCEPT !.ZITEM[id].ZDIFFICULTY = record.difficulty])
    ELSE c

\* The title, composer and genre steps are those of the edit handlers.
ImportArgs(record, dry_run) ==
    [title |-> record.title, composer |-> record.composer, genre |-> record.genre, dry_run |-> dry_run]

ImportFields(c, id, record, dry_run) ==
    MarkUnlessDry(
        edit_genre(edit_composer(
            import_difficulty(import_rating(import_key(
                edit_title(c, id, ImportArgs(record, dry_run)), id, record, dry_run), id, record, dry_run),
                id, record, dry_run),
            id, ImportArgs(record, dry_run)), id, ImportArgs(record, dry_run)),
        id, dry_run)

ImportParsed(c, record, dry_run, parsed) ==
    IF ~c.res.ok THEN c
    ELSE IF ~IsSome(parsed) THEN c
    ELSE IF ~InModel(Get(parsed)) THEN c
    ELSE IF ~get_score_by_id(c.db, I64Value(Get(parsed))).ok THEN c
    ELSE ImportFields(c, I64Value(Get(parsed)), record, dry_run)

import_record(c, record, dry_run) == ImportParsed(c, record, dry_run, parse_i64(record.id))

RECURSIVE import_records(_, _, _)
import_records(c, records, dry_run) ==
    IF records = <<>> THEN c
    ELSE import_records(import_record(c, Head(records), dry_run), Tail(records), dry_run)

\* What a dry run announces for each record: the update of a score, or a skip.
Announced(d, parsed) ==
    IF IsSome(parsed) /\ InModel(Get(parsed)) /\ get_score_by_id(d, I64Value(Get(parsed))).ok THEN "update" ELSE "skip"

WouldImport(d, records) == [k \in 1..Len(records) |-> Announced(d, parse_i64(records[k].id))]

import_csv(d, f, e, a) ==
    Outcome(import_records(Begin(d, e), a.records, a.dry_run), f, "none",
            IF a.dry_run THEN WouldImport(d, a.records) ELSE <<>>)

(***************************************************************************)
(* fixes duplicate-bookmarks.                                              *)
(***************************************************************************)
\* A bookmark is a duplicate when an older bookmark of the same score has the
\* same title and pages (a NULL never equals anything).
\* ORDER BY score_title, start_page: rows with equal keys come out in the
\* order of the scan, by Z_PK.
DuplicateBefore(d, b, b2) ==
    LET title == d.ZITEM[Get(d.ZITEM[b].ZSCORE)].ZTITLE
        title2 == d.ZITEM[Get(d.ZITEM[b2].ZSCORE)].ZTITLE
        page == Get(d.ZITEM[b].ZSTARTPAGE)
        page2 == Get(d.ZITEM[b2].ZSTARTPAGE)
    IN  \/ TextBelow(title, title2)
        \/ title = title2 /\ page < page2
        \/ title = title2 /\ page = page2 /\ b < b2

RECURSIVE OrderedDuplicates(_, _)
OrderedDuplicates(d, ids) ==
    IF ids = {} THEN <<>>
    ELSE LET first == CHOOSE b \in ids : \A b2 \in ids \ {b} : DuplicateBefore(d, b, b2)
         IN  <<first>> \o OrderedDuplicates(d, ids \ {first})

find_duplicate_bookmarks(d) ==
    LET same(b, b2) ==
            /\ d.ZITEM[b2].Z_ENT = BOOKMARK
            /\ IsSome(d.ZITEM[b].ZSCORE) /\ d.ZITEM[b2].ZSCORE = d.ZITEM[b].ZSCORE
            /\ d.ZITEM[b2].ZTITLE = d.ZITEM[b].ZTITLE
            /\ IsSome(d.ZITEM[b].ZSTARTPAGE) /\ d.ZITEM[b2].ZSTARTPAGE = d.ZITEM[b].ZSTARTPAGE
            /\ IsSome(d.ZITEM[b].ZENDPAGE) /\ d.ZITEM[b2].ZENDPAGE = d.ZITEM[b].ZENDPAGE
    IN  OrderedDuplicates(d, {b \in DOMAIN d.ZITEM :
            /\ d.ZITEM[b].Z_ENT = BOOKMARK
            /\ IsSome(d.ZITEM[b].ZSCORE) /\ Get(d.ZITEM[b].ZSCORE) \in DOMAIN d.ZITEM
            /\ \E b2 \in DOMAIN d.ZITEM : same(b, b2) /\ b2 < b})

\* One duplicate: three deletes, then the entry of the mirror; a mirror error
\* is a warning.  The state is the context, the files and the mirror outcome.
Worse(mirror, m) ==
    IF ~m.ok \/ mirror = "error" THEN "error"
    ELSE IF m.changed \/ mirror = "updated" THEN "updated" ELSE "unchanged"

DeletedFromItm(st, c, m) ==
    IF ~c.res.ok THEN [st EXCEPT !.c = c]
    ELSE [st EXCEPT !.c = c, !.fs = m.fs, !.mirror = Worse(st.mirror, m)]

delete_bookmark(st, id) ==
    IF ~st.c.res.ok THEN st
    ELSE DeletedFromItm(st, DeleteGenreLinks(DeleteComposerLinks(DeleteItem(st.c, id), id), id),
                        delete_bookmark_from_itm(st.fs, st.e, st.c.db.ZITEM[id].ZPATH, st.c.db.ZITEM[id].ZUUID))

RECURSIVE delete_bookmarks(_, _)
delete_bookmarks(st, ids) ==
    IF ids = <<>> THEN st ELSE delete_bookmarks(delete_bookmark(st, Head(ids)), Tail(ids))

Found(duplicates) == [k \in 1..Len(duplicates) |-> "duplicate"]

FixDone(d, f, e, a, duplicates, st) ==
    IF duplicates = <<>> \/ a.dry_run THEN Outcome(Begin(d, e), f, "none", Found(duplicates))
    ELSE Outcome(st.c, st.fs, st.mirror, Found(duplicates))

FixDuplicates(d, f, e, a, duplicates) ==
    FixDone(d, f, e, a, duplicates,
            delete_bookmarks([c |-> Begin(d, e), fs |-> f, e |-> e, mirror |-> "none"], duplicates))

fixes_duplicate_bookmarks(d, f, e, a) == FixDuplicates(d, f, e, a, find_duplicate_bookmarks(d))

(***************************************************************************)
(* Composers: rename and merge.  The store part is models/meta.rs and the  *)
(* handler is commands/metadata.rs.  The mirror part has no body in the    *)
(* sources and follows the specification: the rename goes to every score   *)
(* mirror (its dictionary and its bookmark entries) and every setlist      *)
(* mirror of the sync folder, each file ending on its own in one of three  *)
(* outcomes: updated; absent, or holding nothing to rename; failed, with a *)
(* warning.  The files, scores and bookmarks updated are counted.          *)
(***************************************************************************)
RenameRows(c, old_name, new_name) ==
    execute(c, [c.db EXCEPT !.ZMETA = [pk \in DOMAIN @ |->
                    IF @[pk].Z_ENT = COMPOSER /\ @[pk].ZVALUE = Some(old_name)
                    THEN [@[pk] EXCEPT !.ZVALUE = Some(new_name)] ELSE @[pk]]])

rename_composer(c, old_name, new_name) ==
    IF ~get_composer_by_name(c.db, old_name).ok
    THEN Fail(RenameRows(c, old_name, new_name), Err("ComposerNotFound", old_name))
    ELSE RenameRows(c, old_name, new_name)

Relink(c, source_id, target_id) ==
    execute(c, [c.db EXCEPT !.Z_4COMPOSERS = {IF l[2] = source_id THEN <<l[1], target_id>> ELSE l : l \in @}])

DeleteMeta(c, id) == execute(c, [c.db EXCEPT !.ZMETA = Without(@, {id})])

MergeFound(c, source, target) ==
    IF ~source.ok THEN Fail(c, source)
    ELSE IF ~target.ok THEN Fail(c, target)
    ELSE DeleteMeta(Relink(c, source.id, target.id), source.id)

merge_composers(c, source_name, target_name) ==
    MergeFound(c, get_composer_by_name(c.db, source_name), get_composer_by_name(c.db, target_name))

RenamedEntries(bookmarks, old_name, new_name) ==
    [k \in 1..Len(bookmarks) |->
        IF bookmarks[k].Composer = Some(old_name) THEN [bookmarks[k] EXCEPT !.Composer = Some(new_name)]
        ELSE bookmarks[k]]

RenamedDict(dict, old_name, new_name) ==
    [dict EXCEPT !.composer = IF @ = Some(old_name) THEN Some(new_name) ELSE @,
                 !.bookmarks = IF IsSome(@) THEN Some(RenamedEntries(Get(@), old_name, new_name)) ELSE @]

\* The bookmark entries of a score mirror that name the composer.
EntriesNaming(file, name) ==
    IF IsSome(file.dict.bookmarks)
    THEN {k \in 1..Len(Get(file.dict.bookmarks)) : Get(file.dict.bookmarks)[k].Composer = Some(name)} ELSE {}

\* A score mirror references the composer in its dictionary or in an entry.
NamesComposer(file, name) ==
    file.kind = "dict" /\ (file.dict.composer = Some(name) \/ EntriesNaming(file, name) # {})

\* The outcome of the rename for one score mirror.
ItmRenameOutcome(file, e, old_name) ==
    CASE file.kind = "missing" -> "absent"
      [] file.kind \in {"corrupt", "other"} -> "failed"
      [] ~NamesComposer(file, old_name) -> "unchanged"
      [] e.fsFault \in {"create", "write"} -> "failed"
      [] OTHER -> "updated"

\* The score mirror after the rename: rewritten, broken by a failed write, or
\* as it was.
ItmRenamed(file, e, old_name, new_name) ==
    CASE ItmRenameOutcome(file, e, old_name) = "updated" ->
             ItmFile("dict", RenamedDict(file.dict, old_name, new_name))
      [] NamesComposer(file, old_name) /\ e.fsFault = "write" -> ItmFile("corrupt", EmptyDict)
      [] OTHER -> file

\* The outcome of the rename for one setlist mirror.  Its dictionary holds a
\* title and items with a FilePath, a Title, an Identifier and pages: no key
\* holds a composer, so a readable setlist mirror never references the old
\* value and no setlist mirror is rewritten.
SetRenameOutcome(file) ==
    CASE file.kind = "missing" -> "absent"
      [] file.kind \in {"corrupt", "other"} -> "failed"
      [] OTHER -> "unchanged"

\* The counts of the report: the files updated, the scores among them whose
\* dictionary named the composer, and the bookmark entries that named it.
Touched(f, e, old_name) ==
    LET updated == {p \in DOMAIN f.itm : ItmRenameOutcome(f.itm[p], e, old_name) = "updated"}
    IN  [k \in 1..Cardinality(updated) |-> "file"]
        \o [k \in 1..Cardinality({p \in updated : f.itm[p].dict.composer = Some(old_name)}) |-> "score"]
        \o [k \in 1..Cardinality(UNION {{<<p, j>> : j \in EntriesNaming(f.itm[p], old_name)} : p \in updated})
               |-> "bookmark"]

\* ok: the sync folder was found and the files were gone through (the Ok of
\* the handler's match); warned: some file ended in the failed outcome.
rename_composer_in_all_itm(f, e, old_name, new_name) ==
    IF e.fsFault = "nofolder"
    THEN [fs |-> f, ok |-> FALSE, warned |-> FALSE, changed |-> FALSE, printed |-> <<>>]
    ELSE [fs |-> [f EXCEPT !.itm = [p \in DOMAIN @ |-> ItmRenamed(@[p], e, old_name, new_name)]],
          ok |-> TRUE,
          warned |-> \/ \E p \in DOMAIN f.itm : ItmRenameOutcome(f.itm[p], e, old_name) = "failed"
                     \/ \E n \in DOMAIN f.set : SetRenameOutcome(f.set[n]) = "failed",
          changed |-> \E p \in DOMAIN f.itm : ItmRenameOutcome(f.itm[p], e, old_name) = "updated",
          printed |-> Touched(f, e, old_name)]

\* metadata.rs: the store part, then the mirrors.  On Ok the counts are
\* printed when a file was updated; on Err the warning is printed and no
\* count.  A warning for one file leaves the command a success as well.
ComposersDone(c, f, m) ==
    IF ~c.res.ok THEN Outcome(c, f, "none", <<>>)
    ELSE IF ~m.ok THEN Outcome(c, m.fs, "error", <<>>)
    ELSE Outcome(c, m.fs, IF m.warned THEN "error" ELSE IF m.changed THEN "updated" ELSE "unchanged", m.printed)

composers_rename(d, f, e, a) ==
    ComposersDone(rename_composer(Begin(d, e), a.old_name, a.new_name), f,
                  rename_composer_in_all_itm(f, e, a.old_name, a.new_name))

composers_merge(d, f, e, a) ==
    ComposersDone(merge_composers(Begin(d, e), a.source, a.target), f,
                  rename_composer_in_all_itm(f, e, a.source, a.target))

(***************************************************************************)
(* The library the commands run against: three scores (1, 2, 5), three     *)
(* bookmarks of score 1 with the same title and pages (3, 4, 6), two       *)
(* composers                                                               *)
(* and a genre, two setlists, and the mirror files of all of them.         *)
(***************************************************************************)
InitialItems ==
    (1 :> ItemRow(SCORE, Txt(<<"p">>), Txt(<<"a","b">>), Some(1), None))
    @@ (2 :> ItemRow(SCORE, Txt(<<"q">>), Txt(<<"a","b","c">>), Some(2), None))
    @@ (3 :> ItemRow(BOOKMARK, Txt(<<"p">>), Txt(<<"m">>), Some(3), Some(1)))
    @@ (4 :> ItemRow(BOOKMARK, Txt(<<"p">>), Txt(<<"m">>), Some(4), Some(1)))
    @@ (5 :> ItemRow(SCORE, Txt(<<"r">>), Txt(<<"e">>), Some(5), None))
    @@ (6 :> ItemRow(BOOKMARK, Txt(<<"p">>), Txt(<<"m">>), Some(6), Some(1)))

InitialDb ==
    [ZITEM |-> InitialItems,
     ZMETA |-> (1 :> MetaRow(COMPOSER, Some(Txt(<<"B">>)), None)) @@ (2 :> MetaRow(GENRE, None, Some(Txt(<<"G">>))))
               @@ (3 :> MetaRow(COMPOSER, Some(Txt(<<"C">>)), None)),
     Z_PRIMARYKEY |-> (META :> 3) @@ (SETLIST :> 2),
     Z_4COMPOSERS |-> {<<1, 1>>, <<3, 1>>, <<2, 3>>},
     Z_4GENRES |-> {<<1, 2>>},
     ZSETLIST |-> (1 :> [ZTITLE |-> Txt(<<"s">>), ZUUID |-> Some(11)]) @@ (2 :> [ZTITLE |-> Txt(<<"t">>), ZUUID |-> Some(12)]),
     ZCYLON |-> (1 :> CylonRow(1, 1, SCORE, Some(21))) @@ (2 :> CylonRow(1, 3, BOOKMARK, Some(23)))
                @@ (3 :> CylonRow(1, 2, SCORE, Some(22))) @@ (4 :> CylonRow(2, 1, SCORE, Some(21)))]

Paths == {Txt(<<"p">>), Txt(<<"q">>), Txt(<<"r">>)}
SetlistNames == {Txt(<<"s">>), Txt(<<"t">>), Txt(<<"u">>)}
FileKinds == {"dict", "missing", "corrupt", "other"}

\* The dictionary a file of a kind other than "dict" is read as: none.
ItmOfKind(kind, dict) == ItmFile(kind, IF kind = "dict" THEN dict ELSE EmptyDict)
SetOfKind(kind, dict) == SetFile(kind, IF kind = "dict" THEN dict ELSE EmptySetDict)

InitialItm(kind) ==
    (Txt(<<"p">>) :> ItmOfKind(kind,
                    [ItmDict(Some(Txt(<<"a","b">>)), Some(7),
                             Some(<<[BookmarkEntry(Some(3), Some(Txt(<<"m">>)), Some(8)) EXCEPT !.Composer = Some(Txt(<<"B">>))],
                                    BookmarkEntry(Some(4), Some(Txt(<<"m">>)), None),
                                    BookmarkEntry(None, Some(Txt(<<"n">>)), None)>>))
                        EXCEPT !.composer = Some(Txt(<<"B">>)), !.genre = Some(Txt(<<"G">>))]))
    @@ (Txt(<<"q">>) :> ItmFile("dict", [ItmDict(Some(Txt(<<"a","b","c">>)), None, None) EXCEPT !.composer = Some(Txt(<<"C">>))]))
    @@ (Txt(<<"r">>) :> ItmFile("missing", EmptyDict))

InitialSet(kind) ==
    (Txt(<<"s">>) :> SetOfKind(kind,
                    SetDict(Some(Txt(<<"s">>)),
                            Some(<<[SetlistItem(Txt(<<"p">>), Txt(<<"a","b">>), 21, FALSE, None, None) EXCEPT !.Extra = Some(6)],
                                   SetlistItem(Txt(<<"p">>), Txt(<<"m">>), 23, TRUE, Some(2), Some(3)),
                                   SetlistItem(Txt(<<"q">>), Txt(<<"a","b","c">>), 22, FALSE, None, None)>>),
                            Some(0), Some(9))))
    @@ (Txt(<<"t">>) :> SetFile("dict", SetDict(Some(Txt(<<"t">>)),
                                           Some(<<SetlistItem(Txt(<<"p">>), Txt(<<"a","b">>), 21, FALSE, None, None)>>),
                                           Some(1), None)))
    @@ (Txt(<<"u">>) :> SetFile("missing", EmptySetDict))

InitialFs(itmKind, setKind) ==
    [itm |-> InitialItm(itmKind), set |-> InitialSet(setKind),
     fld |-> [kind |-> "dict", setlists |-> <<Txt(<<"s">>), Txt(<<"t">>)>>]]

\* The faults of a run: the statement that fails (MaxFailAt bounds its
\* position) or the file operation that fails, and the state in which the
\* mirror of score 1 and of setlist "s" are found.  A run has at most one of
\* them.
MaxFailAt == 4
FsFaults == {"none", "nofolder", "create", "write", "remove"}

Scenarios ==
    {sc \in [failAt : 0..MaxFailAt, fsFault : FsFaults, itmKind : FileKinds, setKind : FileKinds] :
        Cardinality({x \in {1, 2, 3, 4} :
            \/ x = 1 /\ sc.failAt # 0
            \/ x = 2 /\ sc.fsFault # "none"
            \/ x = 3 /\ sc.itmKind # "dict"
            \/ x = 4 /\ sc.setKind # "dict"}) <= 1}

Init ==
    /\ \E sc \in Scenarios :
          /\ env = [failAt |-> sc.failAt, fsFault |-> sc.fsFault]
          /\ fs = InitialFs(sc.itmKind, sc.setKind)
    /\ db = InitialDb
    /\ last = NoCommand /\ minted = 0 /\ steps = 0
    /\ keyText = <<>> /\ keyResult = KeyIdle

(***************************************************************************)
(* The commands an operator can give, with their arguments.                *)
(***************************************************************************)
MaxSteps == 1
MaxFields == 2
MaxRows == 2
MaxPosition == 4

Opt(S) == {None} \cup {Some(x) : x \in S}

TitleArgs == {Txt(<<"A", "x">>)}
KeyArgs == {Txt(<<"D", " ", "m", "i", "n">>), Txt(<<"H", " ", "m", "a", "j">>)}
RatingArgs == {0, 3, 7}
DifficultyArgs == {0, 2, 6}
ComposerArgs == {Txt(<<"B">>), Txt(<<"N">>)}
ComposerNames == {Txt(<<"B">>), Txt(<<"C">>), Txt(<<"N">>)}
GenreArgs == {Txt(<<"G">>), Txt(<<"R">>)}

FieldCount(a) ==
    Len(a.title) + Len(a.key) + Len(a.rating) + Len(a.difficulty) + Len(a.composer) + Len(a.genre)

EditFields ==
    {a \in [title : Opt(TitleArgs), key : Opt(KeyArgs), rating : Opt(RatingArgs),
            difficulty : Opt(DifficultyArgs), composer : Opt(ComposerArgs), genre : Opt(GenreArgs)] :
        FieldCount(a) <= MaxFields}

ScoreIdentifiers == {Txt(<<"1">>), Txt(<<"a", "b", "c">>), Txt(<<"z">>)}
BookmarkIds == {3, 4, 9}
SetlistIdentifiers == {Txt(<<"1">>), Txt(<<"t">>), Txt(<<"z">>)}
ItemIdentifiers == {Txt(<<"1">>), Txt(<<"2">>), Txt(<<"3">>), Txt(<<"5">>), Txt(<<"m">>)}

CsvRecord(id, title, key, rating, composer) ==
    [id |-> id, title |-> title, key |-> key, rating |-> rating, difficulty |-> None,
     composer |-> composer, genre |-> None]

CsvRecords ==
    {CsvRecord(Txt(<<"1">>), Some(Txt(<<"A", "x">>)), None, Some(3), None),
     CsvRecord(Txt(<<"2">>), None, Some(Txt(<<"H", " ", "m", "a", "j">>)), Some(7), Some(Txt(<<"N">>))),
     CsvRecord(Txt(<<"3">>), Some(Txt(<<"A", "x">>)), None, None, None),
     CsvRecord(Txt(<<"x">>), Some(Txt(<<"A", "x">>)), None, None, None)}

CsvFiles == UNION {[1..n -> CsvRecords] : n \in 0..MaxRows}

Done(cmd, a, o) ==
    [cmd |-> cmd, args |-> a, res |-> o.res, mirror |-> o.mirror, printed |-> o.printed,
     pre |-> [db |-> db, fs |-> fs, env |-> env, minted |-> minted]]

Run(cmd, a, o) ==
    /\ db' = o.db
    /\ fs' = o.fs
    /\ env' = [env EXCEPT !.failAt = o.failAt]
    /\ minted' = minted + o.minted
    /\ last' = Done(cmd, a, o)
    /\ steps' = steps + 1
    /\ UNCHANGED <<keyText, keyResult>>

EditArgs(fields, dry_run) ==
    [title |-> fields.title, key |-> fields.key, rating |-> fields.rating, difficulty |-> fields.difficulty,
     composer |-> fields.composer, genre |-> fields.genre, dry_run |-> dry_run, identifier |-> <<>>, id |-> 0]

ScoresEdit ==
    /\ steps < MaxSteps
    /\ \E fields \in EditFields, identifier \in ScoreIdentifiers, dry_run \in BOOLEAN :
        LET a == [EditArgs(fields, dry_run) EXCEPT !.identifier = identifier]
        IN  \E o \in {scores_edit(db, fs, env, a)} : Run("scores edit", a, o)

BookmarksEdit ==
    /\ steps < MaxSteps
    /\ \E fields \in EditFields, id \in BookmarkIds, dry_run \in BOOLEAN :
        LET a == [EditArgs(fields, dry_run) EXCEPT !.id = id]
        IN  \E o \in {bookmarks_edit(db, fs, env, a)} : Run("bookmarks edit", a, o)

BookmarksDelete ==
    /\ steps < MaxSteps
    /\ \E id \in BookmarkIds :
        LET a == [id |-> id] IN \E o \in {bookmarks_delete(db, fs, env, a)} : Run("bookmarks delete", a, o)

ImportCsv ==
    /\ steps < MaxSteps
    /\ \E records \in CsvFiles, dry_run \in BOOLEAN :
        LET a == [records |-> records, dry_run |-> dry_run]
        IN  \E o \in {import_csv(db, fs, env, a)} : Run("import csv", a, o)

FixesDuplicateBookmarks ==
    /\ steps < MaxSteps
    /\ \E dry_run \in BOOLEAN :
        LET a == [dry_run |-> dry_run]
        IN  \E o \in {fixes_duplicate_bookmarks(db, fs, env, a)} : Run("fixes duplicate-bookmarks", a, o)

SetlistsCreate ==
    /\ steps < MaxSteps
    /\ \E name \in SetlistNames :
        LET a == [name |-> name] IN \E o \in {setlists_create(db, fs, env, a, minted)} : Run("setlists create", a, o)

SetlistsRename ==
    /\ steps < MaxSteps
    /\ \E identifier \in SetlistIdentifiers, new_name \in SetlistNames :
        LET a == [identifier |-> identifier, new_name |-> new_name]
        IN  \E o \in {setlists_rename(db, fs, env, a)} : Run("setlists rename", a, o)

SetlistsDelete ==
    /\ steps < MaxSteps
    /\ \E identifier \in SetlistIdentifiers :
        LET a == [identifier |-> identifier] IN \E o \in {setlists_delete(db, fs, env, a)} : Run("setlists delete", a, o)

SetlistsAddScore ==
    /\ steps < MaxSteps
    /\ \E setlist \in SetlistIdentifiers, score \in ItemIdentifiers :
        LET a == [setlist |-> setlist, score |-> score, position |-> 0]
        IN  \E o \in {setlists_add_score(db, fs, env, a, minted)} : Run("setlists add-score", a, o)

SetlistsRemoveScore ==
    /\ steps < MaxSteps
    /\ \E setlist \in SetlistIdentifiers, score \in ItemIdentifiers :
        LET a == [setlist |-> setlist, score |-> score, position |-> 0]
        IN  \E o \in {setlists_remove_score(db, fs, env, a)} : Run("setlists remove-score", a, o)

SetlistsReorder ==
    /\ steps < MaxSteps
    /\ \E setlist \in SetlistIdentifiers, score \in ItemIdentifiers, position \in 0..MaxPosition, wraps \in BOOLEAN :
        LET a == [setlist |-> setlist, score |-> score, position |-> position]
        IN  /\ position = 0 \/ wraps
            /\ \E o \in {setlists_reorder(db, fs, env, a, wraps, minted)} : Run("setlists reorder", a, o)

ComposersRename ==
    /\ steps < MaxSteps
    /\ \E old_name \in ComposerNames, new_name \in ComposerNames :
        LET a == [old_name |-> old_name, new_name |-> new_name]
        IN  \E o \in {composers_rename(db, fs, env, a)} : Run("composers rename", a, o)

ComposersMerge ==
    /\ steps < MaxSteps
    /\ \E source \in ComposerNames, target \in ComposerNames :
        LET a == [source |-> source, target |-> target]
        IN  \E o \in {composers_merge(db, fs, env, a)} : Run("composers merge", a, o)

Next ==
    \/ ScoresEdit \/ BookmarksEdit \/ BookmarksDelete \/ ImportCsv \/ FixesDuplicateBookmarks
    \/ SetlistsCreate \/ SetlistsRename \/ SetlistsDelete
    \/ SetlistsAddScore \/ SetlistsRemoveScore \/ SetlistsReorder
    \/ ComposersRename \/ ComposersMerge

Spec == Init /\ [][Next]_vars

(***************************************************************************)
(* Properties of the commands, read off the last command run: its          *)
(* arguments, its result, the stores before it (last.pre) and after it.    *)
(***************************************************************************)
IsEdit == last.cmd \in {"scores edit", "bookmarks edit"}

\* The identity tokens a member carries in the link rows of a setlist, and
\* the entries of a setlist's mirror with theirs.
Tokens(d, sl, item) ==
    {d.ZCYLON[pk].ZUUID : pk \in {p \in DOMAIN d.ZCYLON : d.ZCYLON[p].ZSETLIST = sl /\ d.ZCYLON[p].ZITEM = item}}

MirrorTokens(f, name) ==
    IF f.set[name].kind = "dict" /\ IsSome(f.set[name].dict.items)
    THEN {<<it.FilePath, it.Title, it.Identifier>> : it \in
             {Get(f.set[name].dict.items)[k] : k \in 1..Len(Get(f.set[name].dict.items))}}
    ELSE {}

\* C1: after a successful setlists reorder every member of every setlist
\* carries, in its link rows and (when the mirror was rewritten) in the items
\* of the mirror, the identity token it carried before the command.
C1_ReorderKeepsIdentity ==
    (last.cmd = "setlists reorder" /\ last.res.ok) =>
        /\ \A sl \in DOMAIN db.ZSETLIST, item \in DOMAIN db.ZITEM :
               Tokens(db, sl, item) = Tokens(last.pre.db, sl, item)
        /\ last.mirror = "updated" =>
               \A name \in SetlistNames : MirrorTokens(fs, name) = MirrorTokens(last.pre.fs, name)

OutOfBounds(a) ==
    \/ IsSome(a.rating) /\ (Get(a.rating) < 1 \/ Get(a.rating) > 6)
    \/ IsSome(a.difficulty) /\ (Get(a.difficulty) < 1 \/ Get(a.difficulty) > 5)

\* C2: a scores edit or bookmarks edit (not a preview, no fault planned)
\* whose rating is outside 1..6 or whose difficulty is outside 1..5 fails and
\* leaves the relational store and the mirror files as they were before the
\* command, whatever other fields it supplies.
C2_BoundsRejectedBeforeWrite ==
    (IsEdit /\ ~last.args.dry_run /\ last.pre.env = NoFaults /\ OutOfBounds(last.args)) =>
        /\ ~last.res.ok
        /\ db = last.pre.db
        /\ fs = last.pre.fs

\* C3: when a statement of an edit or of a reorder fails (the planned fault
\* was reached and the command returned the store's error), no statement of
\* the command has taken effect: the store is the store before the command.
C3_MultiTableWritesAtomic ==
    (/\ last.cmd \in {"scores edit", "bookmarks edit", "setlists reorder"}
     /\ last.pre.env.failAt > 0
     /\ ~last.res.ok /\ last.res.err = "Database") =>
        db = last.pre.db

\* The store a command leaves when every mirror file is a readable
\* dictionary and no file operation fails.
Replay(cmd, a, pre, wraps) ==
    LET f == InitialFs("dict", "dict")
        e == [pre.env EXCEPT !.fsFault = "none"]
    IN  CASE cmd = "scores edit" -> scores_edit(pre.db, f, e, a).db
          [] cmd = "bookmarks edit" -> bookmarks_edit(pre.db, f, e, a).db
          [] cmd = "bookmarks delete" -> bookmarks_delete(pre.db, f, e, a).db
          [] cmd = "import csv" -> import_csv(pre.db, f, e, a).db
          [] cmd = "fixes duplicate-bookmarks" -> fixes_duplicate_bookmarks(pre.db, f, e, a).db
          [] cmd = "setlists create" -> setlists_create(pre.db, f, e, a, pre.minted).db
          [] cmd = "setlists rename" -> setlists_rename(pre.db, f, e, a).db
          [] cmd = "setlists delete" -> setlists_delete(pre.db, f, e, a).db
          [] cmd = "setlists add-score" -> setlists_add_score(pre.db, f, e, a, pre.minted).db
          [] cmd = "setlists remove-score" -> setlists_remove_score(pre.db, f, e, a).db
          [] cmd = "setlists reorder" -> setlists_reorder(pre.db, f, e, a, wraps, pre.minted).db
          [] cmd = "composers rename" -> composers_rename(pre.db, f, e, a).db
          [] cmd = "composers merge" -> composers_merge(pre.db, f, e, a).db

MirrorFailed == last.cmd # "none" /\ last.mirror = "error"

\* C4: when the mirror step of a command raised an error (a warning was
\* printed), the command returned success and the relational store is the one
\* the command leaves when the mirror step succeeds: nothing is rolled back.
C4_MirrorErrorIsWarning ==
    MirrorFailed =>
        /\ last.res.ok
        /\ \E wraps \in BOOLEAN : db = Replay(last.cmd, last.args, last.pre, wraps)

C4_Witness ==
    /\ MirrorFailed
    /\ last.cmd = "setlists rename"
    /\ last.res.ok
    /\ db # last.pre.db

IsPreview ==
    /\ last.cmd \in {"scores edit", "bookmarks edit", "import csv", "fixes duplicate-bookmarks"}
    /\ last.args.dry_run

\* C5: after scores edit, bookmarks edit, import csv or the duplicate
\* bookmarks fix run with the preview flag, the relational store and every
\* mirror file are what they were before the command, and no statement was
\* executed.
C5_PreviewAppliesNothing ==
    IsPreview =>
        /\ db = last.pre.db
        /\ fs = last.pre.fs
        /\ env.failAt = last.pre.env.failAt
        /\ last.mirror = "none"

C5_Witness ==
    /\ IsPreview
    /\ last.cmd = "scores edit"
    /\ last.res.ok
    /\ IsSome(last.args.title) /\ IsSome(last.args.composer)
    /\ last.printed = <<"Title", "Composer">>
    /\ last.pre.db.ZITEM[1].ZTITLE # Get(last.args.title)

PatchKeys == {"title", "composer", "genre", "key", "rating", "difficulty"}
EntryKey(k) ==
    CASE k = "title" -> "Title" [] k = "composer" -> "Composer" [] k = "genre" -> "Genre"
      [] k = "key" -> "Key" [] k = "rating" -> "Rating" [] k = "difficulty" -> "Difficulty"

\* The patch left every file but the mirror at path as it was.
OnlyFile(path) ==
    /\ \A p \in Paths \ {path} : fs.itm[p] = last.pre.fs.itm[p]
    /\ fs.set = last.pre.fs.set
    /\ fs.fld = last.pre.fs.fld

ScorePatchIsolated(path, old, new, u) ==
    /\ OnlyFile(path)
    /\ new.extra = old.extra
    /\ new.bookmarks = old.bookmarks
    /\ \A k \in PatchKeys : new[k] = IF u[k] = None THEN old[k] ELSE u[k]

EntryPatchIsolated(path, old, new, k, u) ==
    /\ OnlyFile(path)
    /\ \A key \in PatchKeys \cup {"extra"} : new[key] = old[key]
    /\ Len(Get(new.bookmarks)) = Len(Get(old.bookmarks))
    /\ \A j \in 1..Len(Get(old.bookmarks)) : j # k => Get(new.bookmarks)[j] = Get(old.bookmarks)[j]
    /\ Get(new.bookmarks)[k].Identifier = Get(old.bookmarks)[k].Identifier
    /\ Get(new.bookmarks)[k].Extra = Get(old.bookmarks)[k].Extra
    /\ \A key \in PatchKeys :
           Get(new.bookmarks)[k][EntryKey(key)] =
               IF u[key] = None THEN Get(old.bookmarks)[k][EntryKey(key)] ELSE u[key]

EditedPath ==
    IF last.cmd = "scores edit"
    THEN last.pre.db.ZITEM[resolve_score(last.pre.db, last.args.identifier).id].ZPATH
    ELSE last.pre.db.ZITEM[last.args.id].ZPATH

\* C6: when scores edit rewrote the mirror of the score (update_itm), or
\* bookmarks edit rewrote the entry of the bookmark in it
\* (update_bookmark_in_itm), the fields named in the update have the new
\* values and every other key of the dictionary, the keys the tool does not
\* know among them, and every other entry of the bookmarks list, are what
\* they were before; no other file changed.
C6_MirrorFieldIsolation ==
    (IsEdit /\ last.mirror = "updated") =>
        IF last.cmd = "scores edit"
        THEN ScorePatchIsolated(EditedPath, last.pre.fs.itm[EditedPath].dict, fs.itm[EditedPath].dict,
                                ItmUpdateOf(last.args))
        ELSE EntryPatchIsolated(EditedPath, last.pre.fs.itm[EditedPath].dict, fs.itm[EditedPath].dict,
                                FirstMatch(Get(last.pre.fs.itm[EditedPath].dict.bookmarks),
                                           Get(last.pre.db.ZITEM[last.args.id].ZUUID)),
                                ItmUpdateOf(last.args))

C6_Witness ==
    /\ last.cmd = "scores edit" /\ last.mirror = "updated"
    /\ IsSome(last.args.rating) /\ last.args.title = None
    /\ IsSome(last.pre.fs.itm[EditedPath].dict.extra)
    /\ IsSome(last.pre.fs.itm[EditedPath].dict.title)
    /\ Len(Get(last.pre.fs.itm[EditedPath].dict.bookmarks)) > 1
    /\ fs.itm[EditedPath].dict.rating = last.args.rating
    /\ fs # last.pre.fs

\* The setlist and the member a setlists command named, and the member's
\* 1-based position before the command (0 when it was not a member).
NamedSetlist == resolve_setlist(last.pre.db, last.args.setlist).id
NamedItem == ResolveItem(last.pre.db, last.args.score).id
PositionOf(members, item) ==
    IF \E k \in 1..Len(members) : members[k] = item
    THEN Min({k \in 1..Len(members) : members[k] = item}) ELSE 0

ItemsOf(f, name) == IF f.set[name].kind = "dict" THEN f.set[name].dict.items ELSE None

\* C11: a successful setlists reorder of a member to the position it already
\* has leaves the order of the setlist's link rows as it was and, when the
\* mirror step raised no error, the items list of the setlist's mirror too.
C11_ReorderToOwnPosition ==
    (/\ last.cmd = "setlists reorder" /\ last.res.ok
     /\ last.args.position >= 1
     /\ last.args.position = PositionOf(Members(last.pre.db, NamedSetlist), NamedItem)) =>
        /\ Members(db, NamedSetlist) = Members(last.pre.db, NamedSetlist)
        /\ last.mirror # "error" =>
               \A name \in SetlistNames : ItemsOf(fs, name) = ItemsOf(last.pre.fs, name)

\* The link rows of a setlist, the tokens an item carries in the store, and
\* the items of a setlist's mirror as a list (empty when there is no file).
LinkPks(d, sl) == {pk \in DOMAIN d.ZCYLON : d.ZCYLON[pk].ZSETLIST = sl}
TokensOfItem(d, item) == {d.ZCYLON[pk].ZUUID : pk \in {p \in DOMAIN d.ZCYLON : d.ZCYLON[p].ZITEM = item}}
AllTokens(d) == {d.ZCYLON[pk].ZUUID : pk \in DOMAIN d.ZCYLON}
ItemList(f, name) == IF IsSome(ItemsOf(f, name)) THEN Get(ItemsOf(f, name)) ELSE <<>>

AddedScore ==
    /\ last.cmd = "setlists add-score" /\ last.res.ok
    /\ resolve_score(last.pre.db, last.args.score).ok

WasMember == PositionOf(Members(last.pre.db, NamedSetlist), NamedItem) > 0

\* The one link row the command added: its key is above every key of the
\* table, the other rows are what they were, and its token is the item's
\* token in another membership, or one no row carried before.
OneLinkAdded(pre, sl, item) ==
    /\ \A pk \in DOMAIN pre.ZCYLON : pk \in DOMAIN db.ZCYLON /\ db.ZCYLON[pk] = pre.ZCYLON[pk]
    /\ Cardinality(DOMAIN db.ZCYLON) = Cardinality(DOMAIN pre.ZCYLON) + 1
    /\ Members(db, sl) = Append(Members(pre, sl), item)
    /\ \A pk \in DOMAIN db.ZCYLON \ DOMAIN pre.ZCYLON :
           /\ pk > MaxPk(pre.ZCYLON)
           /\ db.ZCYLON[pk].ZSETLIST = sl /\ db.ZCYLON[pk].ZITEM = item
           /\ IF TokensOfItem(pre, item) # {} THEN db.ZCYLON[pk].ZUUID \in TokensOfItem(pre, item)
              ELSE IsSome(db.ZCYLON[pk].ZUUID) /\ db.ZCYLON[pk].ZUUID \notin AllTokens(pre)
    /\ [db EXCEPT !.ZCYLON = pre.ZCYLON] = pre

OneEntryAdded(name, row, sl, item) ==
    /\ Len(ItemList(fs, name)) = Len(ItemList(last.pre.fs, name)) + 1
    /\ SubSeq(ItemList(fs, name), 1, Len(ItemList(last.pre.fs, name))) = ItemList(last.pre.fs, name)
    /\ ItemList(fs, name)[Len(ItemList(fs, name))].FilePath = row.ZPATH
    /\ ItemList(fs, name)[Len(ItemList(fs, name))].Title = row.ZTITLE
    /\ {ItemList(fs, name)[Len(ItemList(fs, name))].Identifier} = Tokens(db, sl, item)

\* C12: setlists add-score of a score that is already a member changes no
\* row of the store; of a score that is not, it adds exactly one link row,
\* last in the setlist's order, carrying the token the score has in another
\* membership or else a token no row carried, and, when the mirror step
\* raised no error, the setlist's mirror has exactly one more entry, the
\* last, with the score's path and title and that token as Identifier.
C12_AddScore ==
    AddedScore =>
        IF WasMember THEN db = last.pre.db
        ELSE /\ OneLinkAdded(last.pre.db, NamedSetlist, NamedItem)
             /\ last.mirror # "error" =>
                    OneEntryAdded(last.pre.db.ZSETLIST[NamedSetlist].ZTITLE, last.pre.db.ZITEM[NamedItem],
                                  NamedSetlist, NamedItem)

C12_Witness ==
    /\ AddedScore /\ ~WasMember
    /\ last.mirror = "updated"
    /\ TokensOfItem(last.pre.db, NamedItem) # {}
    /\ Len(ItemList(last.pre.fs, last.pre.db.ZSETLIST[NamedSetlist].ZTITLE)) > 0
    /\ Tokens(db, NamedSetlist, NamedItem) = TokensOfItem(last.pre.db, NamedItem)

(***************************************************************************)
(* Composer merge.                                                         *)
(***************************************************************************)
Merged == last.cmd = "composers merge" /\ last.res.ok /\ last.args.source # last.args.target
SourceId == get_composer_by_name(last.pre.db, last.args.source).id
TargetId == get_composer_by_name(last.pre.db, last.args.target).id
SourceLinks == {l \in last.pre.db.Z_4COMPOSERS : l[2] = SourceId}
ItemCounts == {k \in 1..Len(last.printed) : last.printed[k] \in {"score", "bookmark"}}

\* The mirror references the target where it referenced the source, and is
\* otherwise what it was.
MirrorMerged(before, after) ==
    /\ after.kind = "dict"
    /\ after.dict.composer = (IF before.dict.composer = Some(last.args.source)
                              THEN Some(last.args.target) ELSE before.dict.composer)
    /\ \A key \in {"title", "genre", "key", "rating", "difficulty", "extra"} : after.dict[key] = before.dict[key]
    /\ IsSome(after.dict.bookmarks) = IsSome(before.dict.bookmarks)
    /\ IsSome(before.dict.bookmarks) =>
         /\ Len(Get(after.dict.bookmarks)) = Len(Get(before.dict.bookmarks))
         /\ \A k \in 1..Len(Get(before.dict.bookmarks)) :
              LET was == Get(before.dict.bookmarks)[k]
                  is == Get(after.dict.bookmarks)[k]
              IN  /\ is.Composer = (IF was.Composer = Some(last.args.source)
                                    THEN Some(last.args.target) ELSE was.Composer)
                  /\ [is EXCEPT !.Composer = None] = [was EXCEPT !.Composer = None]

\* C13: after a merge of a source composer into a different target composer,
\* every item that was linked to the source is linked to the target, no link
\* names the source, the source row is gone and the target row is as it was;
\* unless a mirror step failed with its warning, every score mirror names the
\* target where it named the source and is otherwise as before, and as many
\* scores and bookmarks are reported as link rows were changed.
C13_ComposerMerge ==
    Merged =>
        /\ db.Z_4COMPOSERS = {IF l \in SourceLinks THEN <<l[1], TargetId>> ELSE l : l \in last.pre.db.Z_4COMPOSERS}
        /\ \A l \in db.Z_4COMPOSERS : l[2] # SourceId /\ l[2] \in DOMAIN db.ZMETA
        /\ SourceId \notin DOMAIN db.ZMETA
        /\ TargetId \in DOMAIN db.ZMETA /\ db.ZMETA[TargetId] = last.pre.db.ZMETA[TargetId]
        /\ last.mirror # "error" =>
             /\ \A p \in Paths : IF last.pre.fs.itm[p].kind = "dict"
                                 THEN MirrorMerged(last.pre.fs.itm[p], fs.itm[p])
                                 ELSE fs.itm[p] = last.pre.fs.itm[p]
             /\ Cardinality(ItemCounts) = Cardinality(SourceLinks)

(***************************************************************************)
(* The authors' code table (the tests of models/key.rs).                   *)
(***************************************************************************)
Text_C_Major == Txt(<<"C"," ","M","a","j","o","r">>)
Text_C_Minor == Txt(<<"C"," ","M","i","n","o","r">>)
Text_E_Major == Txt(<<"E"," ","M","a","j","o","r">>)
Text_E_Minor == Txt(<<"E"," ","M","i","n","o","r">>)
Text_F_Major == Txt(<<"F"," ","M","a","j","o","r">>)
Text_G_Major == Txt(<<"G"," ","M","a","j","o","r">>)
Text_Fs_Minor == Txt(<<"F","#"," ","M","i","n","o","r">>)
Text_Bb_Major == Txt(<<"B","b"," ","M","a","j","o","r">>)

DecodeTable == {<<110, Text_C_Major>>, <<111, Text_C_Minor>>, <<310, Text_E_Major>>,
                <<311, Text_E_Minor>>, <<410, Text_F_Major>>, <<510, Text_G_Major>>}
EncodeTable == {<<Text_C_Major, 110>>, <<Text_Fs_Minor, 411>>, <<Text_Bb_Major, 610>>}

\* C14: from_code decodes each code of the authors' table to a key that is
\* displayed as the table says: 110 "C Major", 111 "C Minor", 310 "E Major",
\* 311 "E Minor", 410 "F Major", 510 "G Major".
C14_DecodeTable ==
    keyResult.op = "from_code" =>
        \A e \in DecodeTable :
            keyResult.arg = e[1] =>
                /\ keyResult.r.ok
                /\ keyResult.r.code = e[1]
                /\ display(keyResult.r) = e[2]

\* C15: from_string encodes each text of the authors' table to the code the
\* table says: "C Major" 110, "F# Minor" 411, "Bb Major" 610.
C15_EncodeTable ==
    keyResult.op = "from_string" =>
        \A e \in EncodeTable :
            keyText = e[1] => keyResult.r.ok /\ keyResult.r.code = e[2]

(***************************************************************************)
(* The preview flag.                                                       *)
(***************************************************************************)
MutatingCommands ==
    {"scores edit", "bookmarks edit", "bookmarks delete", "import csv", "fixes duplicate-bookmarks",
     "setlists create", "setlists rename", "setlists delete",
     "setlists add-score", "setlists remove-score", "setlists reorder",
     "composers rename", "composers merge"}

\* C16: every mutating command takes a preview flag among its arguments, and
\* a run under the flag leaves both stores as they were.
C16_EveryCommandPreviews ==
    last.cmd \in MutatingCommands =>
        /\ "dry_run" \in DOMAIN last.args
        /\ last.args.dry_run => db = last.pre.db /\ fs = last.pre.fs

(***************************************************************************)
(* A mirror file that does not exist.                                      *)
(***************************************************************************)
FolderFound == last.pre.env.fsFault # "nofolder"

\* The score mirror addressed by a patch, an entry update or an entry removal.
ItmAbsent ==
    /\ \/ IsEdit /\ ~last.args.dry_run
       \/ last.cmd = "bookmarks delete"
    /\ last.res.ok /\ FolderFound
    /\ last.pre.fs.itm[last.pre.db.ZITEM[IF last.cmd = "bookmarks delete" THEN last.args.id
                                         ELSE IF last.cmd = "bookmarks edit" THEN last.args.id
                                         ELSE resolve_score(last.pre.db, last.args.identifier).id].ZPATH].kind
          = "missing"

\* The setlist mirror addressed by a rename, a delete, an entry removal or a
\* rebuild of the list.
SetAbsent ==
    /\ last.cmd \in {"setlists rename", "setlists delete", "setlists remove-score", "setlists reorder"}
    /\ last.res.ok /\ FolderFound
    /\ last.pre.fs.set[last.pre.db.ZSETLIST[
           resolve_setlist(last.pre.db, IF last.cmd \in {"setlists rename", "setlists delete"}
                                        THEN last.args.identifier ELSE last.args.setlist).id].ZTITLE].kind
          = "missing"

\* C17: when the mirror file a command addresses does not exist in the sync
\* folder, the mirror step raises no error, no file is created or changed,
\* and the command succeeds with the relational store changed as it is when
\* the mirror exists.
C17_MissingMirrorIsNoError ==
    (ItmAbsent \/ SetAbsent) =>
        /\ last.mirror = "unchanged"
        /\ fs = last.pre.fs
        /\ \E wraps \in BOOLEAN : db = Replay(last.cmd, last.args, last.pre, wraps)

C17_Witness ==
    /\ SetAbsent /\ last.cmd = "setlists reorder"
    /\ last.mirror = "unchanged"
    /\ db # last.pre.db

(***************************************************************************)
(* The order of the two stores.                                            *)
(***************************************************************************)
\* C18: when a mutating command ends with an error, no mirror file has been
\* created, modified or deleted by it: the relational change comes first and
\* its failure aborts the command before anything is mirrored.
C18_RelationalStoreFirst ==
    (last.cmd \in MutatingCommands /\ ~last.res.ok) => fs = last.pre.fs

(***************************************************************************)
(* The position of a reorder.                                              *)
(***************************************************************************)
Clamped(p, length) == IF p < 1 THEN 1 ELSE IF p > length THEN length ELSE p
OtherMembers(members, item) == SelectSeq(members, LAMBDA x : x # item)

ReorderOfMember ==
    /\ last.cmd = "setlists reorder"
    /\ last.pre.env.failAt = 0
    /\ resolve_setlist(last.pre.db, last.args.setlist).ok
    /\ ResolveItem(last.pre.db, last.args.score).ok
    /\ PositionOf(Members(last.pre.db, NamedSetlist), NamedItem) > 0

\* C19: a reorder of a member to any requested position p, 0 and values above
\* the length of the setlist among them, completes; the member ends at
\* position max(1, min(p, length)) and the other members keep their order.
C19_ReorderClampsPosition ==
    ReorderOfMember =>
        /\ last.res.ok
        /\ PositionOf(Members(db, NamedSetlist), NamedItem)
              = Clamped(last.args.position, Len(Members(last.pre.db, NamedSetlist)))
        /\ OtherMembers(Members(db, NamedSetlist), NamedItem)
              = OtherMembers(Members(last.pre.db, NamedSetlist), NamedItem)

(***************************************************************************)
(* Removal by identity token, on any content of the mirror: the bookmarks  *)
(* of p.itm and the items of s.set hold up to MaxEntries entries, each     *)
(* with no Identifier or one of two tokens, and a token is removed.        *)
(***************************************************************************)
MaxEntries == 3
EntryTokens == {1, 2}
EntryIdentifiers == {None} \cup {Some(t) : t \in EntryTokens}
IdentifierLists == UNION {[1..n -> EntryIdentifiers] : n \in 0..MaxEntries}

\* The k-th entry carries Extra = k, which tells the entries apart.
BookmarkEntries(ids) == [k \in 1..Len(ids) |-> BookmarkEntry(ids[k], Some(Txt(<<"m">>)), Some(k))]
SetlistItems(ids) ==
    [k \in 1..Len(ids) |-> [SetlistItem(Txt(<<"p">>), Txt(<<"a","b">>), 0, FALSE, None, None)
                               EXCEPT !.Identifier = ids[k], !.Extra = Some(k)]]

MirrorsHolding(ids) ==
    [InitialFs("dict", "dict") EXCEPT !.itm[Txt(<<"p">>)].dict.bookmarks = Some(BookmarkEntries(ids)),
                                      !.set[Txt(<<"s">>)].dict.items = Some(SetlistItems(ids))]

RemoveIdle(token) == [cmd |-> "none", token |-> token, ok |-> TRUE, changed |-> FALSE, pre |-> NoDb]

RemoveInit ==
    /\ \E ids \in IdentifierLists : fs = MirrorsHolding(ids)
    /\ \E token \in EntryTokens : last = RemoveIdle(token)
    /\ keyText = <<>> /\ keyResult = KeyIdle /\ db = NoDb /\ minted = 0 /\ env = NoFaults /\ steps = 0

Removed(cmd, m) ==
    /\ last' = [cmd |-> cmd, token |-> last.token, ok |-> m.ok, changed |-> m.changed, pre |-> fs]
    /\ fs' = m.fs
    /\ UNCHANGED <<keyText, keyResult, db, minted, env, steps>>

RemoveBookmarkEntry ==
    /\ last.cmd = "none"
    /\ Removed("delete_bookmark_from_itm", delete_bookmark_from_itm(fs, env, Txt(<<"p">>), Some(last.token)))

RemoveSetlistItem ==
    /\ last.cmd = "none"
    /\ Removed("remove_item_from_setlist_file", remove_item_from_setlist_file(fs, env, Txt(<<"s">>), last.token))

RemoveNext == RemoveBookmarkEntry \/ RemoveSetlistItem

SpecRemove == RemoveInit /\ [][RemoveNext]_vars

ListOf(f) ==
    IF last.cmd = "delete_bookmark_from_itm" THEN Get(f.itm[Txt(<<"p">>)].dict.bookmarks)
    ELSE Get(f.set[Txt(<<"s">>)].dict.items)

\* C20: a removal by identity token either removes exactly one entry, one
\* that carries the token, and leaves the other entries as they were and in
\* their order, or reports that nothing matched and leaves the files as they
\* were; whatever the list holds, entries with the same Identifier included.
C20_RemovalRemovesOne ==
    last.cmd \in {"delete_bookmark_from_itm", "remove_item_from_setlist_file"} =>
        /\ last.ok
        /\ IF last.changed
           THEN \E k \in 1..Len(ListOf(last.pre)) :
                    /\ ListOf(last.pre)[k].Identifier = Some(last.token)
                    /\ ListOf(fs) = SubSeq(ListOf(last.pre), 1, k - 1)
                                       \o SubSeq(ListOf(last.pre), k + 1, Len(ListOf(last.pre)))
           ELSE fs = last.pre

(***************************************************************************)
(* Deleting a bookmark.                                                    *)
(***************************************************************************)
DeletedItems ==
    IF last.cmd \in {"bookmarks delete", "fixes duplicate-bookmarks"} /\ last.res.ok
    THEN DOMAIN last.pre.db.ZITEM \ DOMAIN db.ZITEM ELSE {}

ComposerLinksOf(d, item) == {l \in d.Z_4COMPOSERS : l[1] = item}
GenreLinksOf(d, item) == {l \in d.Z_4GENRES : l[1] = item}
MembershipsOf(d, item) == {pk \in DOMAIN d.ZCYLON : d.ZCYLON[pk].ZITEM = item}

\* C21: after bookmarks delete or the duplicate-bookmarks fix has deleted a
\* bookmark, no composer link, no genre link and no setlist membership row
\* names the deleted item.
C21_DeleteCascades ==
    \A item \in DeletedItems :
        /\ ComposerLinksOf(db, item) = {}
        /\ GenreLinksOf(db, item) = {}
        /\ MembershipsOf(db, item) = {}

(***************************************************************************)
(* Shared metadata rows and the id allocator.                              *)
(***************************************************************************)
MintedMeta ==
    IF last.cmd \in {"scores edit", "bookmarks edit", "import csv"} /\ last.res.ok
    THEN DOMAIN db.ZMETA \ DOMAIN last.pre.db.ZMETA ELSE {}

SameValue(row, other) == row.Z_ENT = other.Z_ENT /\ row.ZVALUE = other.ZVALUE /\ row.ZVALUE2 = other.ZVALUE2

\* C22: a command that got or created composers and genres inserted no row
\* for a value the table already held; every row it inserted has an id above
\* the ids that existed, and the allocator entry of the shared metadata is
\* at least that id.
C22_AllocatorMaintained ==
    \A id \in MintedMeta :
        /\ id > MaxPk(last.pre.db.ZMETA)
        /\ \A old \in DOMAIN last.pre.db.ZMETA : ~SameValue(db.ZMETA[id], last.pre.db.ZMETA[old])
        /\ db.Z_PRIMARYKEY[META] >= id

(***************************************************************************)
(* Sequences of membership commands: add, remove and reorder, one after    *)
(* the other, on the initial library with every mirror in place and no     *)
(* fault pending.                                                          *)
(***************************************************************************)
MaxSequence == 3
SequenceSetlists == {Txt(<<"1">>), Txt(<<"t">>)}
SequenceItems == {Txt(<<"1">>), Txt(<<"2">>), Txt(<<"3">>)}
SequencePositions == 0..3

SequenceInit ==
    /\ env = NoFaults
    /\ fs = InitialFs("dict", "dict")
    /\ db = InitialDb
    /\ last = NoCommand /\ minted = 0 /\ steps = 0
    /\ keyText = <<>> /\ keyResult = KeyIdle

SequenceAdd ==
    /\ steps < MaxSequence
    /\ \E setlist \in SequenceSetlists, score \in SequenceItems :
        LET a == [setlist |-> setlist, score |-> score, position |-> 0]
        IN  \E o \in {setlists_add_score(db, fs, env, a, minted)} : Run("setlists add-score", a, o)

SequenceRemove ==
    /\ steps < MaxSequence
    /\ \E setlist \in SequenceSetlists, score \in SequenceItems :
        LET a == [setlist |-> setlist, score |-> score, position |-> 0]
        IN  \E o \in {setlists_remove_score(db, fs, env, a)} : Run("setlists remove-score", a, o)

SequenceReorder ==
    /\ steps < MaxSequence
    /\ \E setlist \in SequenceSetlists, score \in SequenceItems, position \in SequencePositions :
        LET a == [setlist |-> setlist, score |-> score, position |-> position]
        IN  \E o \in {setlists_reorder(db, fs, env, a, TRUE, minted)} : Run("setlists reorder", a, o)

SequenceNext == SequenceAdd \/ SequenceRemove \/ SequenceReorder

SpecSequence == SequenceInit /\ [][SequenceNext]_vars

\* The link rows of a setlist in insertion order, and the entries of its
\* mirror, as (path, token) pairs.
StorePairs(d, sl) ==
    [k \in 1..Len(MemberPks(d, sl)) |->
        <<d.ZITEM[d.ZCYLON[MemberPks(d, sl)[k]].ZITEM].ZPATH, d.ZCYLON[MemberPks(d, sl)[k]].ZUUID>>]

MirrorPairs(f, name) ==
    [k \in 1..Len(ItemList(f, name)) |-> <<ItemList(f, name)[k].FilePath, ItemList(f, name)[k].Identifier>>]

\* C23: from a library whose setlist mirrors list the tokens of the link
\* rows, after any sequence of add, remove and reorder commands the mirror of
\* every setlist exists and lists, in order, the (path, token) pairs of the
\* setlist's link rows.
C23_MembershipAgreement ==
    \A sl \in DOMAIN db.ZSETLIST :
        /\ fs.set[db.ZSETLIST[sl].ZTITLE].kind = "dict"
        /\ MirrorPairs(fs, db.ZSETLIST[sl].ZTITLE) = StorePairs(db, sl)

C23_Witness ==
    /\ steps = MaxSequence /\ minted > 1
    /\ last.cmd = "setlists remove-score" /\ last.res.ok /\ db # last.pre.db
    /\ \E sl \in DOMAIN db.ZSETLIST :
           /\ Len(StorePairs(db, sl)) = 2
           /\ MirrorPairs(fs, db.ZSETLIST[sl].ZTITLE) # MirrorPairs(InitialFs("dict", "dict"), db.ZSETLIST[sl].ZTITLE)

(***************************************************************************)
(* The kind of a member.                                                   *)
(***************************************************************************)
NamedSetlistTitle == last.pre.db.ZSETLIST[NamedSetlist].ZTITLE

\* C24: after a successful reorder every link row of the setlist carries in
\* Z4_ITEM the entity tag of its item, as the rows did before, and when the
\* mirror was rebuilt an entry is marked as a bookmark exactly when its item
\* is a bookmark.
C24_ReorderKeepsKind ==
    (last.cmd = "setlists reorder" /\ last.res.ok) =>
        /\ \A pk \in LinkPks(db, NamedSetlist) :
               db.ZCYLON[pk].Z4_ITEM = db.ZITEM[db.ZCYLON[pk].ZITEM].Z_ENT
        /\ last.mirror = "updated" =>
               /\ Len(ItemList(fs, NamedSetlistTitle)) = Len(Members(db, NamedSetlist))
               /\ \A k \in 1..Len(ItemList(fs, NamedSetlistTitle)) :
                      ItemList(fs, NamedSetlistTitle)[k].Bookmark
                          <=> db.ZITEM[Members(db, NamedSetlist)[k]].Z_ENT = BOOKMARK

(***************************************************************************)
(* Referential integrity of a merge.                                       *)
(***************************************************************************)
ComposerOf(d, item) ==
    {d.ZMETA[l[2]].ZVALUE : l \in {x \in ComposerLinksOf(d, item) : x[2] \in DOMAIN d.ZMETA}}

\* C25: after a merge of one existing composer into an existing composer,
\* the same one included, every composer link names a row of the shared
\* metadata table, and every item that had a composer has one.
C25_MergeKeepsIntegrity ==
    (last.cmd = "composers merge" /\ last.res.ok) =>
        /\ \A l \in db.Z_4COMPOSERS : l[2] \in DOMAIN db.ZMETA
        /\ \A item \in DOMAIN db.ZITEM : ComposerOf(last.pre.db, item) # {} => ComposerOf(db, item) # {}

(***************************************************************************)
(* The mirror of a renamed setlist.                                        *)
(***************************************************************************)
RenamedSetlist == resolve_setlist(last.pre.db, last.args.identifier).id
OldName == last.pre.db.ZSETLIST[RenamedSetlist].ZTITLE

\* C26: when setlists rename found the old mirror and rename_setlist_file
\* returned success, a mirror exists under the new name, its title is the
\* new name and its items are the items of the old file; for every new name,
\* the old name included.
C26_RenameKeepsMirror ==
    (last.cmd = "setlists rename" /\ last.res.ok /\ last.mirror = "updated") =>
        /\ fs.set[last.args.new_name].kind = "dict"
        /\ fs.set[last.args.new_name].dict.title = Some(last.args.new_name)
        /\ fs.set[last.args.new_name].dict.items = last.pre.fs.set[OldName].dict.items


\* The entities whose path equals the identifier (scores only: setlists and
\* libraries have no lookup before the title stages other than the id).
PathMatches == IF last.cmd = "resolve_score" THEN KeyMatches ELSE {}

\* C27: resolution never silently picks among several candidates: when the
\* identifier is no id and no path, and two or more entities carry it as
\* their title (exactly, or else without regard to case), the result is
\* Ambiguous and not one of those entities.
C27_NoSilentPick ==
    (IsResolve /\ IdMatches = {} /\ PathMatches = {}) =>
        /\ Cardinality(ExactMatches) >= 2 => last.res = Err("AmbiguousIdentifier", last.identifier)
        /\ (ExactMatches = {} /\ Cardinality(NoCaseMatches) >= 2) =>
               last.res = Err("AmbiguousIdentifier", last.identifier)


\* The rating and the difficulty a Score read back from the store carries:
\* the columns the SELECT of get_score_by_id names rating_value and
\* difficulty_value, taken through the LEFT JOINs of ZMETA on ZITEM.ZRATING
\* and ZITEM.ZDIFFICULTY (NULL when the item's column is NULL or no row of
\* ZMETA has that primary key).
rating_value(d, id) ==
    LET r == d.ZITEM[id].ZRATING
    IN  IF IsSome(r) /\ Get(r) \in DOMAIN d.ZMETA THEN d.ZMETA[Get(r)].ZVALUE5 ELSE None

difficulty_value(d, id) ==
    LET r == d.ZITEM[id].ZDIFFICULTY
    IN  IF IsSome(r) /\ Get(r) \in DOMAIN d.ZMETA THEN d.ZMETA[Get(r)].ZVALUE1 ELSE None

EditedScore == resolve_score(last.pre.db, last.args.identifier).id

\* C28: after a successful scores edit that is no preview and sets rating r
\* in 1..6 (difficulty d in 1..5), reading the score back through
\* get_score_by_id gives rating r (difficulty d).
C28_RatingReadBack ==
    (last.cmd = "scores edit" /\ last.res.ok /\ ~last.args.dry_run) =>
        /\ IsSome(last.args.rating) => rating_value(db, EditedScore) = last.args.rating
        /\ IsSome(last.args.difficulty) => difficulty_value(db, EditedScore) = last.args.difficulty


\* The codes of the form note * 100 + sharp * 10 + mode with note in 1..7,
\* sharp and mode in 0..1.
WellFormedCodes == {n * 100 + sh * 10 + m : n \in 1..7, sh \in 0..1, m \in 0..1}

\* C29: decoding then encoding is the identity on decodable codes: whenever
\* from_code returns a key for a code, from_string of the key's display
\* succeeds with that code, and from_code returns a key only for codes of the
\* form note(1-7)*100 + sharp(0|1)*10 + mode(0|1).
C29_DecodeEncode ==
    (keyResult.op = "from_code" /\ keyResult.r.ok) =>
        /\ from_string(display(keyResult.r)).ok
        /\ from_string(display(keyResult.r)).code = keyResult.arg
        /\ keyResult.arg \in WellFormedCodes


AddedSetlist == resolve_setlist(last.pre.db, last.args.setlist).id
AddedName == last.pre.db.ZSETLIST[AddedSetlist].ZTITLE

\* The paths of a setlist's members in the order of the link rows, and the
\* paths its mirror lists.
StorePaths(d, sl) == [k \in 1..Len(MemberPks(d, sl)) |-> StorePairs(d, sl)[k][1]]
MirrorPaths(f, name) == [k \in 1..Len(ItemList(f, name)) |-> MirrorPairs(f, name)[k][1]]

\* C30: whenever a setlist add command succeeds, its mirror step reports no
\* error and a mirror file is in place afterwards, also when the file was
\* absent before the command, the mirror lists one entry per member of the
\* setlist in the relational store, in the order of the store.
C30_AddListsMembership ==
    (/\ last.cmd = "setlists add-score" /\ last.res.ok /\ last.mirror # "error"
     /\ fs.set[AddedName].kind = "dict") =>
        MirrorPaths(fs, AddedName) = StorePaths(db, AddedSetlist)

====
